---- MODULE Spec2Model ----
(***************************************************************************)
(* Request admission pipeline of the fastify-api server: the hooks that    *)
(* registerMiddleware installs (logger, CORS, rate limit, auth), the       *)
(* route-level preHandlers of todoRoutes, and the in-memory fixed-window   *)
(* rate limiter of createRateLimitMiddleware with its module-level         *)
(* rateLimitStore.                                                         *)
(*                                                                         *)
(* Node runs one callback at a time, so every hook body and every 'finish' *)
(* listener is one atomic step; requests interleave between the steps.     *)
(* RateLimitData objects live on a heap (objs) because the 'finish'        *)
(* listener closes over the object it was handed, not over the key.        *)
(***************************************************************************)
EXTENDS Integers, Sequences, FiniteSets, TLC

\* ---------------------------------------------------------------- bounds
MaxReq == 3
MaxReqSkip == 2
MaxReqRoutes == 2
MaxReqAuth == 2
MaxCalls == 2
MaxReqHealth == 2
MaxStoreCalls == 3
MaxReqZero == 2
MaxReqLazy == 2
MaxReqInvalid == 2
MaxReqThrow == 2
MaxPage == 5
MaxLimit == 4
MaxTotal == 9
MaxMax == 2
MaxTicks == 2
TickMs == 700
MaxReqWindowEnd == 5
MaxReqLate == 3
MaxReqGuard == 2
MaxTicksLate == 3
MaxSteps == 4
StepMs == 1000
MaxInFlight == 2
MaxInFlightAdvance == 1
MaxInFlightRoutes == 1
MaxReqNow == 3
MaxReqFresh == 2
MaxReqStrict == 6
MaxCtrlCalls == 2

Keys == {"ip1", "ip2"}
WindowChoices == {1200}
Statuses == {200, 500}
SkipChoices == {<<FALSE, FALSE>>, <<TRUE, FALSE>>, <<FALSE, TRUE>>}
\* Final statuses of an authentication endpoint: success, redirect, refusal.
AuthStatuses == {200, 302, 401}
\* Every status a route handler answers with.
HandlerStatuses == {200, 201, 204, 302, 400, 401, 404, 500}

VARIABLES config, env, now, objs, rateLimitStore, reqs

vars == <<config, env, now, objs, rateLimitStore, reqs>>

\* ------------------------------------------------------------- policies
DefaultMessage == "Too many requests, please try again later"
StrictMessage == "Too many requests to this sensitive endpoint"

\* RateLimitOptions after the destructuring defaults have been applied.
RateLimitOptions(windowMs, max, message, skipS, skipF) ==
  [windowMs |-> windowMs, max |-> max, message |-> message,
   skipSuccessfulRequests |-> skipS, skipFailedRequests |-> skipF]

strictRateLimitMiddleware ==
  RateLimitOptions(5 * 60 * 1000, 10, StrictMessage, FALSE, FALSE)

AuthMessage == "Too many authentication attempts"

authRateLimitMiddleware ==
  RateLimitOptions(15 * 60 * 1000, 5, AuthMessage, TRUE, FALSE)

\* The policy behind a rate-limit hook.
PolicyOf(stage) ==
  IF stage = "strictRateLimit" THEN strictRateLimitMiddleware
  ELSE config.rateLimit

IsRateLimitStage(stage) == stage \in {"rateLimit", "strictRateLimit"}

\* ------------------------------------------------------- hook registration
\* What registration leaves on the Fastify instance: the hooks of each
\* phase in the order they were added, the error handler, the decorators
\* and the routes the middleware itself adds.
NoHooks ==
  [order |-> <<>>, onRequest |-> <<>>, preHandler |-> <<>>, onResponse |-> <<>>,
   errorHandler |-> "default", decorated |-> <<>>, routes |-> <<>>]

addHook(h, phase, name) ==
  IF phase = "onRequest"
  THEN [h EXCEPT !.onRequest = Append(@, name)]
  ELSE IF phase = "preHandler"
  THEN [h EXCEPT !.preHandler = Append(@, name)]
  ELSE [h EXCEPT !.onResponse = Append(@, name)]

registered(h, name) == [h EXCEPT !.order = Append(@, name)]

\* loggerMiddleware, in development performanceLoggerMiddleware after it,
\* the error handler and the onResponse debug log.
registerLoggerHooks(h, nodeEnv) ==
  LET h1 == addHook(h, "onRequest", "logger")
      h2 == IF nodeEnv = "development"
            THEN addHook(h1, "onRequest", "performanceLogger")
            ELSE h1
      h3 == [h2 EXCEPT !.errorHandler = "errorLoggerMiddleware"]
  IN addHook(h3, "onResponse", "logger")

\* corsMiddleware on every request and a route for OPTIONS.
registerCorsHooks(h) ==
  [addHook(h, "onRequest", "cors") EXCEPT !.routes = Append(@, "OPTIONS *")]

registerRateLimitHooks(h) == addHook(h, "preHandler", "rateLimit")

\* The request log on every request and the two decorators.
registerAuthHooks(h) ==
  [addHook(h, "onRequest", "auth") EXCEPT
     !.decorated = @ \o <<"authenticate", "requireAdmin">>]

registerMiddleware(cfg) ==
  LET h1 == IF cfg.logger
            THEN registered(registerLoggerHooks(NoHooks, cfg.nodeEnv), "logger")
            ELSE NoHooks
      h2 == IF cfg.cors THEN registered(registerCorsHooks(h1), "cors") ELSE h1
      h3 == IF cfg.rateLimitOn THEN registered(registerRateLimitHooks(h2), "rateLimit")
            ELSE h2
      h4 == IF cfg.auth THEN registered(registerAuthHooks(h3), "auth") ELSE h3
  IN h4

hooks == registerMiddleware(config)

\* Route-level preHandlers of todoRoutes.
todoRoutes(kind) ==
  IF kind \in {"POST", "DELETE"} THEN <<"strictRateLimit">> ELSE <<>>

\* Route groups behind the authentication hooks: protectedRoutes adds
\* authMiddleware as preHandler, the admin group adds requireAdmin.
protectedRoutes(kind) ==
  IF kind = "PROTECTED" THEN <<"authenticate">>
  ELSE IF kind = "ADMIN" THEN <<"requireAdmin">>
  ELSE <<>>

\* ------------------------------------------------------------ arithmetic
\* Math.ceil(a / b) for b > 0.
Ceil(a, b) == -((-a) \div b)

\* ----------------------------------------------------------- TodoService
\* Variant: the number of pages rounded down.
generatePaginationInfoFloor(page, limit, total) ==
  LET totalPages == total \div limit
  IN [page |-> page, limit |-> limit, total |-> total,
      totalPages |-> totalPages,
      hasNext |-> page < totalPages,
      hasPrev |-> page > 1]

generatePaginationInfo(page, limit, total) ==
  LET totalPages == Ceil(total, limit)
  IN [page |-> page, limit |-> limit, total |-> total,
      totalPages |-> totalPages,
      hasNext |-> page < totalPages,
      hasPrev |-> page > 1]

\* -------------------------------------------------------- TodoController
\* What a call meets: params and query that pass their schema or not; a
\* body that is valid, empty ({}), made of unknown keys only (zod strips
\* them) or invalid; a service that finds the todo, reports it absent or
\* throws (a database error, not a ZodError).
ParamKinds == {"valid", "invalid"}
BodyKinds == {"valid", "empty", "unknownOnly", "invalid"}
ServiceOutcomes == {"found", "absent", "throws"}
Operations == {"getAllTodos", "getTodoById", "createTodo", "updateTodo", "deleteTodo"}

\* The state of a controller call: the statuses it has sent, in order, the
\* calls it has made to the service, and the error field of the body it
\* sent ("" when the body has none).
Reply(statuses, calls, error) ==
  [sent |-> statuses, serviceCalls |-> calls, rethrown |-> FALSE, error |-> error]

\* The method has called the service and is suspended on its answer.
Awaiting == Reply(<<>>, 1, "")

\* updateTodoSchema.parse(body) succeeds with an object that has no keys.
parsesToNoKeys(body) == body \in {"empty", "unknownOnly"}

\* Each method up to `await this.todoService...`: a request that fails
\* validation is answered inside the call, else the service is called.
getAllTodos(query) ==
  IF query = "invalid" THEN Reply(<<400>>, 0, "Invalid query parameters")
  ELSE Awaiting

getTodoById(params) ==
  IF params = "invalid" THEN Reply(<<400>>, 0, "Invalid ID format")
  ELSE Awaiting

createTodo(body) ==
  IF body # "valid" THEN Reply(<<400>>, 0, "Validation failed")
  ELSE Awaiting

\* Variant: the empty update goes to the service.
updateTodoUnchecked(params, body) ==
  IF params = "invalid" THEN Reply(<<400>>, 0, "Validation failed")
  ELSE IF body = "invalid" THEN Reply(<<400>>, 0, "Validation failed")
  ELSE Awaiting

updateTodo(params, body) ==
  IF params = "invalid" THEN Reply(<<400>>, 0, "Validation failed")
  ELSE IF body = "invalid" THEN Reply(<<400>>, 0, "Validation failed")
  ELSE IF parsesToNoKeys(body) THEN Reply(<<400>>, 0, "No valid fields to update")
  ELSE Awaiting

deleteTodo(params) ==
  IF params = "invalid" THEN Reply(<<400>>, 0, "Invalid ID format")
  ELSE Awaiting

TodoController(op, params, body) ==
  CASE op = "getAllTodos" -> getAllTodos(params)
    [] op = "getTodoById" -> getTodoById(params)
    [] op = "createTodo" -> createTodo(body)
    [] op = "updateTodo" -> updateTodo(params, body)
    [] OTHER -> deleteTodo(params)

\* Each method after the await, with what the service did.
getAllTodosResume(service) ==
  IF service = "throws" THEN Reply(<<500>>, 1, "Failed to fetch todos")
  ELSE Reply(<<200>>, 1, "")

getTodoByIdResume(service) ==
  IF service = "throws" THEN Reply(<<500>>, 1, "Failed to fetch todo")
  ELSE IF service = "absent" THEN Reply(<<404>>, 1, "Todo not found")
  ELSE Reply(<<200>>, 1, "")

createTodoResume(service) ==
  IF service = "throws" THEN Reply(<<500>>, 1, "Failed to create todo")
  ELSE Reply(<<201>>, 1, "")

updateTodoResume(service) ==
  IF service = "throws" THEN Reply(<<500>>, 1, "Failed to update todo")
  ELSE IF service = "absent" THEN Reply(<<404>>, 1, "Todo not found")
  ELSE Reply(<<200>>, 1, "")

deleteTodoResume(service) ==
  IF service = "throws" THEN Reply(<<500>>, 1, "Failed to delete todo")
  ELSE IF service = "absent" THEN Reply(<<404>>, 1, "Todo not found")
  ELSE Reply(<<204>>, 1, "")

TodoControllerResume(op, service) ==
  CASE op = "getAllTodos" -> getAllTodosResume(service)
    [] op = "getTodoById" -> getTodoByIdResume(service)
    [] op = "createTodo" -> createTodoResume(service)
    [] op = "updateTodo" -> updateTodoResume(service)
    [] OTHER -> deleteTodoResume(service)

\* The controller method the handler of a route of todoRoutes calls; ""
\* for a route outside todoRoutes.
RouteOperation(kind) ==
  CASE kind = "GET" -> "getAllTodos"
    [] kind = "POST" -> "createTodo"
    [] kind = "DELETE" -> "deleteTodo"
    [] OTHER -> ""

\* ------------------------------------------------------------ rate limit
\* A header that has not been set: a value no header of the model takes
\* (a limit is a max, -1 at the least; the other headers are not negative).
NoHeader == -999999

sweepExpired(store, heap, t) ==
  [k \in Keys |->
     IF store[k] # 0 /\ heap[store[k]].resetTime <= t THEN 0 ELSE store[k]]

\* Variant: a record is still live at the instant its window ends.
isExpiredAfter(data, t) == data.resetTime < t

isExpired(data, t) == data.resetTime <= t

\* windowMs: Infinity, which RateLimitOptions (a number) admits and
\* createRateLimitMiddleware does not check: a number above every time the
\* model reaches, that a sum leaves as it is.
Infinity == 2000000000

\* now + windowMs
plus(t, windowMs) == IF windowMs = Infinity THEN Infinity ELSE t + windowMs

\* new Date(t).toISOString() throws RangeError for a time that is no date.
invalidDate(t) == t >= Infinity

\* Variant: a new window that already holds one hit.
newRecordCounted(t, windowMs) == [count |-> 1, resetTime |-> plus(t, windowMs)]

newRecord(t, windowMs) == [count |-> 0, resetTime |-> plus(t, windowMs)]

\* Variant: reject only above max instead of at max.
limitReachedAbove(data, max) == data.count > max

limitReached(data, max) == data.count >= max

remainingHeader(data, max) == max - data.count - 1

timeUntilReset(data, t) == Ceil(data.resetTime - t, 1000)

shouldCount(options, statusCode) ==
  IF options.skipSuccessfulRequests /\ statusCode >= 200 /\ statusCode < 300
  THEN FALSE
  ELSE IF options.skipFailedRequests /\ statusCode >= 400
  THEN FALSE
  ELSE TRUE

\* One run of rateLimitMiddleware for request req at time t.  Returns the
\* request, the store and the heap as the hook leaves them, and the name
\* of the error it threw ("" for none): toISOString() of the RateLimit-Reset
\* header throws for a resetTime that is no date, after the record has
\* been stored and the headers before it set, and on the admitting path
\* after the 'finish' listener has been added.
rateLimitMiddleware(stage, req, store, heap, t) ==
  LET options == PolicyOf(stage)
      key == req.ip
      swept == sweepExpired(store, heap, t)
      fresh == swept[key] = 0 \/ isExpired(heap[swept[key]], t)
      heap2 == IF fresh THEN Append(heap, newRecord(t, options.windowMs)) ELSE heap
      id == IF fresh THEN Len(heap) + 1 ELSE swept[key]
      store2 == IF fresh THEN [swept EXCEPT ![key] = id] ELSE swept
      data == heap2[id]
      retry == timeUntilReset(data, t)
  IN IF limitReached(data, options.max) /\ invalidDate(data.resetTime)
     THEN [req |-> [req EXCEPT
                     !.headers = [limit |-> options.max, remaining |-> 0,
                                  reset |-> @.reset, retryAfter |-> @.retryAfter]],
           store |-> store2, heap |-> heap2, threw |-> "RangeError"]
     ELSE IF limitReached(data, options.max)
     THEN [req |-> [req EXCEPT
                     !.headers = [limit |-> options.max, remaining |-> 0,
                                  reset |-> data.resetTime, retryAfter |-> retry],
                     !.statusCode = 429,
                     !.sent = TRUE,
                     !.body = [error |-> "Too Many Requests",
                               message |-> options.message,
                               retryAfter |-> retry],
                     !.rl = Append(@, [stage |-> stage, obj |-> id, admitted |-> FALSE,
                                       remaining |-> 0, reset |-> data.resetTime,
                                       retryAfter |-> retry])],
           store |-> store2, heap |-> heap2, threw |-> ""]
     ELSE IF invalidDate(data.resetTime)
     THEN [req |-> [req EXCEPT
                     !.headers = [limit |-> options.max,
                                  remaining |-> remainingHeader(data, options.max),
                                  reset |-> @.reset, retryAfter |-> @.retryAfter],
                     !.listeners = Append(@, [stage |-> stage, key |-> key, obj |-> id])],
           store |-> store2, heap |-> heap2, threw |-> "RangeError"]
     ELSE [req |-> [req EXCEPT
                     !.headers = [limit |-> options.max,
                                  remaining |-> remainingHeader(data, options.max),
                                  reset |-> data.resetTime,
                                  retryAfter |-> @.retryAfter],
                     !.listeners = Append(@, [stage |-> stage, key |-> key, obj |-> id]),
                     !.rl = Append(@, [stage |-> stage, obj |-> id, admitted |-> TRUE,
                                       remaining |-> remainingHeader(data, options.max),
                                       reset |-> data.resetTime,
                                       retryAfter |-> NoHeader])],
           store |-> store2, heap |-> heap2, threw |-> ""]

\* The hook with the sweep of lines 45-51 taken out: an expired record is
\* found only by the check of the get-or-create.
rateLimitMiddlewareLazy(stage, req, store, heap, t) ==
  LET options == PolicyOf(stage)
      key == req.ip
      fresh == store[key] = 0 \/ isExpired(heap[store[key]], t)
      heap2 == IF fresh THEN Append(heap, newRecord(t, options.windowMs)) ELSE heap
      id == IF fresh THEN Len(heap) + 1 ELSE store[key]
      store2 == IF fresh THEN [store EXCEPT ![key] = id] ELSE store
      data == heap2[id]
      retry == timeUntilReset(data, t)
      entry == IF limitReached(data, options.max)
               THEN [stage |-> stage, obj |-> id, admitted |-> FALSE,
                     remaining |-> 0, reset |-> data.resetTime,
                     retryAfter |-> retry]
               ELSE [stage |-> stage, obj |-> id, admitted |-> TRUE,
                     remaining |-> remainingHeader(data, options.max),
                     reset |-> data.resetTime, retryAfter |-> NoHeader]
  IN [entry |-> entry, store |-> store2, heap |-> heap2,
      stale |-> store[key] # 0 /\ isExpired(heap[store[key]], t)]

\* reply.raw.on('finish', async () => { if (await shouldCount()) ... }) of
\* one admitted run, up to the await: shouldCount() reads reply.statusCode
\* when 'finish' is emitted and the listener is suspended on its result.
\* TRUE when the continuation is going to count.
finishListener(l, statusCode) == shouldCount(PolicyOf(l.stage), statusCode)

\* The listeners of ls whose continuation is going to count, in the order
\* they were added.
RECURSIVE emitFinish(_, _)
emitFinish(ls, statusCode) ==
  IF ls = <<>> THEN <<>>
  ELSE IF finishListener(Head(ls), statusCode)
  THEN <<Head(ls)>> \o emitFinish(Tail(ls), statusCode)
  ELSE emitFinish(Tail(ls), statusCode)

\* The continuation of the listener, in a later microtask: count the
\* request on the captured object and put that object back under the key.
finishListenerResume(l, store, heap) ==
  [store |-> [store EXCEPT ![l.key] = l.obj],
   heap |-> [heap EXCEPT ![l.obj].count = @ + 1]]

\* --------------------------------------------- MemoryRateLimitStore
\* The counter store of docs/tasks/05.md, Step 5.  Its Map is held in
\* rateLimitStore and objs like the limiter's; its window is one minute.
StoreWindowMs == 60000

storeExpired(current, t) == t > current.resetTime

\* increment(key): returns the store with totalHits and timeToExpire.
increment(key, store, heap, t) ==
  IF store[key] = 0 \/ storeExpired(heap[store[key]], t)
  THEN LET resetTime == t + StoreWindowMs
       IN [store |-> [store EXCEPT ![key] = Len(heap) + 1],
           heap |-> Append(heap, [count |-> 1, resetTime |-> resetTime]),
           totalHits |-> 1, timeToExpire |-> resetTime - t]
  ELSE LET current == [heap[store[key]] EXCEPT !.count = @ + 1]
       IN [store |-> store,
           heap |-> [heap EXCEPT ![store[key]] = current],
           totalHits |-> current.count,
           timeToExpire |-> current.resetTime - t]

\* decrement(key)
decrement(key, store, heap) ==
  IF store[key] # 0 /\ heap[store[key]].count > 0
  THEN [store |-> store, heap |-> [heap EXCEPT ![store[key]].count = @ - 1]]
  ELSE [store |-> store, heap |-> heap]

\* resetKey(key)
resetKey(key, store, heap) ==
  [store |-> [store EXCEPT ![key] = 0], heap |-> heap]

\* ---------------------------------------------------------- route scope
\* docs/tasks/05.md, Step 1 and MiddlewareManager: which requests a stage
\* handles.  Paths are sequences of characters, written out because
\* startsWith and slice work on characters.
\* An optional field: absent, or present with a value.
Undefined == <<>>
Some(x) == <<x>>

Docs == <<"/", "d", "o", "c", "s">>
DocsBelow == Docs \o <<"/", "a", "p", "i">>
DocsWildcard == Docs \o <<"/", "*">>
Docsearch == Docs \o <<"e", "a", "r", "c", "h">>
Health == <<"/", "h", "e", "a", "l", "t", "h">>
Todos == <<"/", "t", "o", "d", "o", "s">>
Metrics == <<"/", "m", "e", "t", "r", "i", "c", "s">>
AuthLogin == <<"/", "a", "u", "t", "h", "/", "l", "o", "g", "i", "n">>
AuthRegister == <<"/", "a", "u", "t", "h", "/", "r", "e", "g", "i", "s", "t", "e", "r">>

Paths == {Docs, DocsBelow, Docsearch, Health, Todos}
ScopeLists == {{}, {Todos}, {Health}, {Todos, Health}, {Docs}, {DocsWildcard}}

\* JavaScript truthiness of an optional array: an array, even an empty
\* one, is truthy; undefined is not.
TruthyArray(x) == x # Undefined

\* JavaScript truthiness of an optional boolean.
TruthyFlag(x) == x = Some(TRUE)

MiddlewareOptions(enabled, skipRoutes, onlyRoutes) ==
  [enabled |-> enabled, skipRoutes |-> skipRoutes, onlyRoutes |-> onlyRoutes]

\* RateLimitOptions of a RateLimitMiddleware: the scope options and max.
StageOptions(enabled, skipRoutes, onlyRoutes, max) ==
  [enabled |-> enabled, skipRoutes |-> skipRoutes, onlyRoutes |-> onlyRoutes,
   max |-> max]

\* BaseMiddleware.shouldSkip for a request whose routerPath is route.
shouldSkip(options, route) ==
  IF TruthyArray(options.onlyRoutes) /\ route \notin options.onlyRoutes[1]
  THEN TRUE
  ELSE IF TruthyArray(options.skipRoutes) /\ route \in options.skipRoutes[1]
  THEN TRUE
  ELSE ~TruthyFlag(options.enabled)

startsWith(s, prefix) ==
  Len(prefix) <= Len(s) /\ SubSeq(s, 1, Len(prefix)) = prefix

endsWith(s, suffix) ==
  Len(suffix) <= Len(s) /\ SubSeq(s, Len(s) - Len(suffix) + 1, Len(s)) = suffix

\* route.slice(0, -2)
sliceOffTwo(route) == SubSeq(route, 1, Len(route) - 2)

\* The callback of skipRoutes.some(...) in registerAuthMiddleware.
matchesRoute(route, url) ==
  IF endsWith(route, <<"/", "*">>)
  THEN startsWith(url, sliceOffTwo(route))
  ELSE url = route

\* const shouldSkip = skipRoutes.some(...) of the JWT onRequest hook.
jwtShouldSkip(options, url) ==
  LET skipRoutes == IF TruthyArray(options.skipRoutes)
                    THEN options.skipRoutes[1] ELSE {}
  IN \E route \in skipRoutes : matchesRoute(route, url)

\* ------------------------------------------------------- onRequest hooks
loggerMiddleware(req) == [req EXCEPT !.trace = Append(@, "logger")]

\* Variant: the CORS hook sets its headers and leaves the preflight to the
\* rest of the pipeline.
corsMiddlewareHeadersOnly(req) == [req EXCEPT !.trace = Append(@, "cors")]

corsMiddleware(req) ==
  IF req.kind = "OPTIONS"
  THEN [req EXCEPT !.trace = Append(@, "cors"), !.statusCode = 204, !.sent = TRUE]
  ELSE [req EXCEPT !.trace = Append(@, "cors")]

authRequestLog(req) == [req EXCEPT !.trace = Append(@, "auth")]

\* performanceLoggerMiddleware: takes the start time and memory and adds a
\* 'finish' listener that only logs.
performanceLoggerMiddleware(req) ==
  [req EXCEPT !.trace = Append(@, "performanceLogger")]

onRequestHook(name, req) ==
  CASE name = "logger" -> loggerMiddleware(req)
    [] name = "performanceLogger" -> performanceLoggerMiddleware(req)
    [] name = "cors" -> corsMiddleware(req)
    [] OTHER -> authRequestLog(req)

\* error.name of what a hook may throw: any Error, and the two names
\* errorLoggerMiddleware tells apart.
ErrorNames == {"Error", "ValidationError", "UnauthorizedError"}

\* error.message of such an error.
ErrorMessages == {"key generator failed", "no address"}

\* fastify.setErrorHandler(errorLoggerMiddleware): the reply for an error
\* [name, message] a hook or handler threw; the message of the reply is
\* error.message for a ValidationError.
errorLoggerMiddleware(error, req) ==
  IF error.name = "ValidationError"
  THEN [req EXCEPT !.statusCode = 400, !.sent = TRUE,
                   !.trace = Append(@, "errorHandler"),
                   !.body = [error |-> "Validation failed",
                             message |-> error.message,
                             retryAfter |-> NoHeader]]
  ELSE IF error.name = "UnauthorizedError"
  THEN [req EXCEPT !.statusCode = 401, !.sent = TRUE,
                   !.trace = Append(@, "errorHandler"),
                   !.body = [error |-> "Unauthorized",
                             message |-> "Authentication required",
                             retryAfter |-> NoHeader]]
  ELSE [req EXCEPT !.statusCode = 500, !.sent = TRUE,
                   !.trace = Append(@, "errorHandler"),
                   !.body = [error |-> "Internal Server Error",
                             message |-> "An unexpected error occurred",
                             retryAfter |-> NoHeader]]

\* ---------------------------------------------------- authentication
\* What a request brings as Authorization header: none, a Bearer token that
\* is not the demo token, the demo token; "throws" stands for an exception
\* inside authMiddleware's try block.
Credentials == {"missing", "Bearer other", "Bearer demo-token", "throws"}

\* reply.status(code).send({error, message}) of an authentication hook.
authReply(req, code, error, message) ==
  [req EXCEPT !.statusCode = code, !.sent = TRUE,
              !.trace = Append(@, IF code = 401 THEN "reply:401"
                                  ELSE IF code = 403 THEN "reply:403"
                                  ELSE "reply:500"),
              !.body = [error |-> error, message |-> message,
                        retryAfter |-> NoHeader]]

\* authMiddleware: the request as the hook leaves it; the demo token sets
\* request.user.
authMiddleware(credential, req) ==
  IF credential = "throws"
  THEN authReply(req, 500, "Authentication failed",
                 "Internal server error during authentication")
  ELSE IF credential = "missing"
  THEN authReply(req, 401, "Missing or invalid Authorization header",
                 "Please provide a valid Bearer token")
  ELSE IF credential = "Bearer demo-token"
  THEN [req EXCEPT !.user = Some([id |-> "demo-user-id", role |-> "user"])]
  ELSE authReply(req, 401, "Invalid token",
                 "The provided token is invalid or expired")

\* Variant: the role check runs whatever authMiddleware has done.
adminAuthMiddlewareUnchecked(req) ==
  IF req.user = Undefined \/ req.user[1].role # "admin"
  THEN authReply(req, 403, "Insufficient permissions",
                 "Admin role required for this operation")
  ELSE req

\* adminAuthMiddleware after `await authMiddleware(request, reply)`: the
\* role check unless the reply has been sent.
adminAuthMiddleware(req) ==
  IF req.sent THEN req
  ELSE IF req.user = Undefined \/ req.user[1].role # "admin"
  THEN authReply(req, 403, "Insufficient permissions",
                 "Admin role required for this operation")
  ELSE req

\* Fastify runs the hooks of a phase in the order they were added and stops
\* at the first one that has sent the reply.
RECURSIVE runOnRequest(_, _)
runOnRequest(hs, req) ==
  IF hs = <<>> \/ req.sent THEN req
  ELSE runOnRequest(Tail(hs), onRequestHook(Head(hs), req))

\* Variant: the lifecycle goes on after a hook has sent the reply.
afterHookUnchecked(req) ==
  IF req.pending # <<>> THEN [req EXCEPT !.pc = "preHandler"]
  ELSE [req EXCEPT !.pc = "handler"]

\* Where the lifecycle goes after a hook: nowhere once the reply is sent.
afterHook(req) ==
  IF req.sent THEN [req EXCEPT !.pc = "sent", !.pending = <<>>]
  ELSE IF req.pending # <<>> THEN [req EXCEPT !.pc = "preHandler"]
  ELSE [req EXCEPT !.pc = "handler"]

newRequest(ip, kind, solo) ==
  [ip |-> ip, kind |-> kind, pc |-> "onRequest", trace |-> <<>>,
   pending |-> hooks.preHandler \o todoRoutes(kind) \o protectedRoutes(kind),
   statusCode |-> 200, sent |-> FALSE,
   headers |-> [limit |-> NoHeader, remaining |-> NoHeader,
                reset |-> NoHeader, retryAfter |-> NoHeader],
   body |-> [error |-> "", message |-> "", retryAfter |-> NoHeader],
   listeners |-> <<>>, counting |-> <<>>, user |-> Undefined,
   rl |-> <<>>, solo |-> solo]

\* ---------------------------------------------------------------- state
\* The MiddlewareConfig getEnvironmentMiddleware picks, with the NODE_ENV
\* that made it pick: developmentMiddleware (no auth) or
\* productionMiddleware (auth).
MiddlewareConfig(a, w, m, s) ==
  [logger |-> TRUE, cors |-> TRUE, rateLimitOn |-> TRUE, auth |-> a,
   nodeEnv |-> IF a THEN "production" ELSE "development",
   rateLimit |-> RateLimitOptions(w, m, DefaultMessage, s[1], s[2])]

\* NODE_ENV is not set: getEnvironmentMiddleware falls back to
\* developmentMiddleware, registerLoggerHooks sees no development.
NodeEnvUnset(cfg) == [cfg EXCEPT !.nodeEnv = "unset"]

\* developmentMiddleware shape (no auth), policies without skip flags.
Configs ==
  { MiddlewareConfig(FALSE, w, m, <<FALSE, FALSE>>) :
      w \in WindowChoices, m \in 0..MaxMax }

\* The same shape with one of the skip flags set.
ConfigsSkip ==
  { MiddlewareConfig(FALSE, w, m, s) :
      w \in WindowChoices, m \in 1..MaxMax, s \in SkipChoices \ {<<FALSE, FALSE>>} }

\* Both environment shapes: development (no auth, the larger max) and
\* production (auth, the smaller max).
ConfigsRoutes ==
  { MiddlewareConfig(FALSE, w, MaxMax, <<FALSE, FALSE>>) : w \in WindowChoices }
    \cup { NodeEnvUnset(MiddlewareConfig(FALSE, w, MaxMax, <<FALSE, FALSE>>)) :
             w \in WindowChoices }
    \cup { MiddlewareConfig(TRUE, w, 1, <<FALSE, FALSE>>) : w \in WindowChoices }

\* The traffic a run offers: the routes requested, the client addresses,
\* the statuses the business handlers answer with, the number of requests.
Traffic(rts, clients, statuses, n) ==
  [routes |-> rts, clients |-> clients, statuses |-> statuses, requests |-> n]

InitCommon ==
  /\ now = 0
  /\ objs = <<>>
  /\ rateLimitStore = [k \in Keys |-> 0]
  /\ reqs = <<>>

\* One client reading and writing todos: GET carries the global hook only,
\* POST the strict hook of todoRoutes as well.  The global policy has no
\* skip flag, so the final status is never read.
Init ==
  /\ InitCommon
  /\ config \in Configs
  /\ env = Traffic({"GET", "POST"}, {"ip1"}, {200, 201}, MaxReq)

\* The same traffic within one instant of the clock.
InitNow ==
  /\ InitCommon
  /\ config \in Configs
  /\ env = Traffic({"GET", "POST"}, {"ip1"}, {200, 201}, MaxReqNow)

\* The same traffic under max >= 1, fewer requests, watched until windows
\* have ended.
InitFresh ==
  /\ InitCommon
  /\ config \in { c \in Configs : c.rateLimit.max >= 1 }
  /\ env = Traffic({"GET", "POST"}, {"ip1"}, {200, 201}, MaxReqFresh)

\* The shipped configurations: developmentMiddleware (max 1000) and
\* productionMiddleware (auth, max 100), both with a window of 15 minutes,
\* beside strictRateLimitMiddleware (max 10, 5 minutes) on POST.
ConfigsStrict ==
  { MiddlewareConfig(FALSE, 15 * 60 * 1000, 1000, <<FALSE, FALSE>>),
    MiddlewareConfig(TRUE, 15 * 60 * 1000, 100, <<FALSE, FALSE>>) }

InitStrict ==
  /\ InitCommon
  /\ config \in ConfigsStrict
  /\ env = Traffic({"GET", "POST"}, {"ip1"}, {200, 201}, MaxReqStrict)

\* Policies with a skip flag: succeeding and failing handlers on GET and on
\* POST (where the strict hook of todoRoutes runs as well), one client.
InitSkip ==
  /\ InitCommon
  /\ config \in ConfigsSkip
  /\ env = Traffic({"GET", "POST"}, {"ip1"}, Statuses \cup {201}, MaxReqSkip)

\* The routes of the server: todoRoutes adds the strict limiter to POST and DELETE,
\* and the CORS hook answers OPTIONS.
InitRoutes ==
  /\ InitCommon
  /\ config \in ConfigsRoutes
  /\ env = Traffic({"GET", "POST", "DELETE", "OPTIONS"}, {"ip1"},
                   {200, 201, 204, 400, 404, 500}, MaxReqRoutes)

\* fastify.addHook('preHandler', authRateLimitMiddleware): the hook every
\* request passes is the authentication-attempt limiter.
ConfigsAuthAttempt ==
  { [logger |-> TRUE, cors |-> TRUE, rateLimitOn |-> TRUE, auth |-> FALSE,
     nodeEnv |-> "development", rateLimit |-> authRateLimitMiddleware] }

\* A caller asks for a limiter scoped to the todo routes.  RateLimitOptions
\* declares no scope field and createRateLimitMiddleware destructures only
\* the fields it knows, so the onlyRoutes entry rides along unread.
ScopedOptions(w, m) ==
  [windowMs |-> w, max |-> m, message |-> DefaultMessage,
   skipSuccessfulRequests |-> FALSE, skipFailedRequests |-> FALSE,
   onlyRoutes |-> {Todos}]

ConfigsHealth ==
  { [logger |-> TRUE, cors |-> TRUE, rateLimitOn |-> TRUE, auth |-> FALSE,
     nodeEnv |-> "development", rateLimit |-> ScopedOptions(w, m)] : w \in WindowChoices, m \in 1..MaxMax }

\* The routes setupRoutes registers: the todo routes and /health.
InitHealth ==
  /\ InitCommon
  /\ config \in ConfigsHealth
  /\ env = Traffic({"GET", "HEALTH"}, {"ip1"}, {200}, MaxReqHealth)

\* A MemoryRateLimitStore just constructed, and callers for two keys.
InitStore ==
  /\ InitCommon
  /\ config = MiddlewareOptions(Some(TRUE), Undefined, Undefined)
  /\ env = Traffic({}, Keys, {}, MaxStoreCalls)

\* Policies around the smallest max: 0 and 1, with every skip setting.
ConfigsZero ==
  { MiddlewareConfig(FALSE, w, m, s) :
      w \in WindowChoices, m \in 0..1, s \in SkipChoices }

InitZero ==
  /\ InitCommon
  /\ config \in ConfigsZero
  /\ env = Traffic({"GET"}, Keys, {200}, MaxReqZero)

\* The limiter and its sweep-less twin side by side: each has its own Map
\* and its own records, both see the same requests at the same times.  The
\* window is one tick long, so requests meet records that are live, at
\* their last instant, and past it.
ConfigsLazy == { MiddlewareConfig(FALSE, TickMs, 1, <<FALSE, FALSE>>) }

InitLazy ==
  /\ now = 0
  /\ reqs = <<>>
  /\ objs = [swept |-> <<>>, lazy |-> <<>>, seen |-> <<>>]
  /\ rateLimitStore = [swept |-> [k \in Keys |-> 0], lazy |-> [k \in Keys |-> 0]]
  /\ config \in ConfigsLazy
  /\ env = Traffic({"GET"}, Keys, {200}, MaxReqLazy)

\* A caller passes a negative max; createRateLimitMiddleware takes the
\* options as they come.  The valid max = 1 stands beside it.
ConfigsInvalid ==
  { MiddlewareConfig(FALSE, w, m, <<FALSE, FALSE>>) :
      w \in WindowChoices, m \in {-1, 1} }

InitInvalid ==
  /\ InitCommon
  /\ config \in ConfigsInvalid
  /\ env = Traffic({"GET"}, {"ip1"}, {200}, MaxReqInvalid)

\* A limiter whose keyGenerator is the caller's own and may throw, and
\* whose window may be Infinity.
InitThrow ==
  /\ InitCommon
  /\ config \in { MiddlewareConfig(FALSE, w, 1, <<FALSE, FALSE>>) :
                   w \in WindowChoices \cup {Infinity} }
  /\ env = Traffic({"GET"}, {"ip1"}, {200}, MaxReqThrow)

\* A TodoService; reqs keeps the latest call with its arguments.
InitPagination ==
  /\ InitCommon
  /\ config = [service |-> "TodoService"]
  /\ env = Traffic({}, {}, {}, 1)

\* A TodoController; reqs keeps the calls made to it with what they met.
InitController ==
  /\ InitCommon
  /\ config = [service |-> "TodoController"]
  /\ env = Traffic({}, {}, {}, MaxCtrlCalls)

\* A window of two clock steps, longer than the second Retry-After
\* counts in, so that requests meet a record before, exactly at and after
\* its resetTime and two records of one client can be live at a time;
\* max = 1; one client.
ConfigsWindowEnd ==
  { MiddlewareConfig(FALSE, w, 1, <<FALSE, FALSE>>) : w \in {2 * StepMs} }

InitWindowEnd ==
  /\ InitCommon
  /\ config \in ConfigsWindowEnd
  /\ env = Traffic({"GET"}, {"ip1"}, {200}, MaxReqWindowEnd)

\* One client under max = 1, watched for a window and a half after the
\* first window has ended.
InitLate ==
  /\ InitCommon
  /\ config \in { MiddlewareConfig(FALSE, w, 1, <<FALSE, FALSE>>) : w \in WindowChoices }
  /\ env = Traffic({"GET"}, {"ip1"}, {200}, MaxReqLate)

\* Public, protected and admin routes and preflights under max = 1.
InitGuard ==
  /\ InitCommon
  /\ config \in { MiddlewareConfig(a, w, 1, <<FALSE, FALSE>>) :
                    a \in {TRUE, FALSE}, w \in WindowChoices }
  /\ env = Traffic({"GET", "OPTIONS", "PROTECTED", "ADMIN"}, {"ip1"}, {200},
                   MaxReqGuard)

InitAuthAttempt ==
  /\ InitCommon
  /\ config \in ConfigsAuthAttempt
  /\ env = Traffic({"LOGIN"}, {"ip1"}, AuthStatuses, MaxReqAuth)

\* Stages of docs/tasks/05.md with every scope configuration: the scope
\* fields absent, empty or listing routes, the enabled flag absent, set or
\* cleared.
ConfigsScope ==
  { StageOptions(e, s, o, m) :
      e \in {Some(TRUE), Some(FALSE), Undefined},
      s \in {Some(l) : l \in ScopeLists} \cup {Undefined},
      o \in {Some(l) : l \in ScopeLists} \cup {Undefined},
      m \in 0..1 }

InitScope ==
  /\ InitCommon
  /\ config \in ConfigsScope
  /\ env = Traffic(Paths, {"ip1"}, {200}, MaxCalls)

\* --------------------------------------------------------------- actions
\* A request arrives and Fastify runs the onRequest hooks for it; at most
\* MaxInFlight requests are under way at a time.
Receive(ip, kind) ==
  /\ Len(reqs) < env.requests
  /\ Cardinality({j \in 1..Len(reqs) : reqs[j].pc # "done"}) < MaxInFlight
  /\ ip \in env.clients
  /\ kind \in env.routes
  /\ LET solo == \A j \in 1..Len(reqs) : reqs[j].ip = ip => reqs[j].pc = "done"
         r == runOnRequest(hooks.onRequest, newRequest(ip, kind, solo))
     IN reqs' = Append(reqs, afterHook(r))
  /\ UNCHANGED <<config, env, now, objs, rateLimitStore>>

\* A rate-limit preHandler hook as Fastify runs it: an error the hook
\* threw goes to the error handler.
rateLimitHook(stage, req, store, heap, t) ==
  LET out == rateLimitMiddleware(stage, req, store, heap, t)
      error == [name |-> out.threw, message |-> "Invalid time value"]
  IN IF out.threw = "" THEN out
     ELSE [out EXCEPT !.req = errorLoggerMiddleware(
                                error, [out.req EXCEPT !.trace = Append(@, out.threw)])]

\* The next preHandler hook of request i (global hooks, then the route's).
PreHandler(i) ==
  /\ reqs[i].pc = "preHandler"
  /\ LET stage == Head(reqs[i].pending)
         popped == [reqs[i] EXCEPT !.pending = Tail(@), !.trace = Append(@, stage)]
         out == rateLimitHook(stage, popped, rateLimitStore, objs, now)
     IN /\ reqs' = [reqs EXCEPT ![i] = afterHook(out.req)]
        /\ rateLimitStore' = out.store
        /\ objs' = out.heap
  /\ UNCHANGED <<config, env, now>>

\* The handler of request req replies status with a body whose error
\* field is error.
handlerSends(req, status, error) ==
  [req EXCEPT !.pc = "sent", !.sent = TRUE, !.statusCode = status,
              !.body = [error |-> error, message |-> "", retryAfter |-> NoHeader],
              !.trace = Append(@, "send")]

\* The route handler of request i runs until it returns its promise.  A
\* handler of todoRoutes is a TodoController method: it answers a request
\* that fails validation at once, else it has called the service and
\* waits.  The handler of another route has produced its answer, which is
\* sent when the promise settles.
Handler(i, input) ==
  /\ reqs[i].pc = "handler"
  /\ LET op == RouteOperation(reqs[i].kind)
         r == IF op = "" THEN Awaiting ELSE TodoController(op, input, input)
         started == [reqs[i] EXCEPT !.trace = Append(@, "handler")]
     IN /\ op = "" => input = "valid"
        /\ r.sent # <<>> => r.sent[1] \in env.statuses
        /\ reqs' = [reqs EXCEPT ![i] =
                      IF r.sent # <<>> THEN handlerSends(started, r.sent[1], r.error)
                      ELSE [started EXCEPT !.pc = "service"]]
  /\ UNCHANGED <<config, env, now, objs, rateLimitStore>>

\* The promise the handler of request i waits on settles and the reply is
\* sent: for a TodoController method by what the service did, for another
\* route with one of the statuses its handler answers with.
HandlerReply(i, service, status) ==
  /\ reqs[i].pc = "service"
  /\ status \in env.statuses
  /\ LET op == RouteOperation(reqs[i].kind)
         r == IF op = "" THEN Reply(<<status>>, 0, "")
              ELSE TodoControllerResume(op, service)
     IN /\ op = "" => service = "found"
        /\ r.sent[1] = status
        /\ reqs' = [reqs EXCEPT ![i] = handlerSends(@, status, r.error)]
  /\ UNCHANGED <<config, env, now, objs, rateLimitStore>>

\* The response has been written out and reply.raw emits 'finish': every
\* listener runs up to its await, the onResponse hooks start.  The store is
\* as it was; the listeners that are going to count wait for their
\* microtask.
Finish(i) ==
  /\ reqs[i].pc = "sent"
  /\ LET waiting == emitFinish(reqs[i].listeners, reqs[i].statusCode)
     IN reqs' = [reqs EXCEPT ![i] =
                   [@ EXCEPT !.pc = IF waiting = <<>> THEN "done" ELSE "finished",
                             !.counting = waiting,
                             !.trace = Append(@, "onResponse")]]
  /\ UNCHANGED <<config, env, now, objs, rateLimitStore>>

\* The microtask that resumes the first waiting listener of request i.
Count(i) ==
  /\ reqs[i].pc = "finished"
  /\ LET out == finishListenerResume(Head(reqs[i].counting), rateLimitStore, objs)
     IN /\ rateLimitStore' = out.store
        /\ objs' = out.heap
  /\ reqs' = [reqs EXCEPT ![i] =
                [@ EXCEPT !.counting = Tail(@),
                          !.pc = IF Tail(reqs[i].counting) = <<>> THEN "done"
                                 ELSE "finished"]]
  /\ UNCHANGED <<config, env, now>>

\* Date.now() moves on.
Tick ==
  /\ now < MaxTicks * TickMs
  /\ now' = now + TickMs
  /\ UNCHANGED <<config, env, objs, rateLimitStore, reqs>>

Next ==
  \/ \E ip \in Keys, kind \in {"GET", "POST", "HEALTH", "LOGIN"} :
       Receive(ip, kind)
  \/ \E i \in 1..Len(reqs) : PreHandler(i)
  \/ \E i \in 1..Len(reqs), input \in ParamKinds : Handler(i, input)
  \/ \E i \in 1..Len(reqs), service \in ServiceOutcomes, status \in HandlerStatuses :
       HandlerReply(i, service, status)
  \/ \E i \in 1..Len(reqs) : Finish(i)
  \/ \E i \in 1..Len(reqs) : Count(i)
  \/ Tick

Spec == Init /\ [][Next]_vars

\* The requests of Spec within one instant of the clock.
NextNow ==
  \/ \E ip \in Keys, kind \in {"GET", "POST"} : Receive(ip, kind)
  \/ \E i \in 1..Len(reqs) : PreHandler(i)
  \/ \E i \in 1..Len(reqs), input \in ParamKinds : Handler(i, input)
  \/ \E i \in 1..Len(reqs), service \in ServiceOutcomes, status \in HandlerStatuses :
       HandlerReply(i, service, status)
  \/ \E i \in 1..Len(reqs) : Finish(i)
  \/ \E i \in 1..Len(reqs) : Count(i)

SpecNow == InitNow /\ [][NextNow]_vars

SpecSkip == InitSkip /\ [][Next]_vars

\* The routes of the server exercised by one client within one instant of
\* the clock (the clock moves in Spec, SpecSkip, SpecWindowEnd, SpecLate),
\* at most MaxInFlightRoutes requests under way at a time (requests overlap
\* in Spec, SpecSkip, SpecWindowEnd, SpecGuard).
ReceiveRoutes(kind) ==
  /\ Cardinality({j \in 1..Len(reqs) : reqs[j].pc # "done"}) < MaxInFlightRoutes
  /\ Receive("ip1", kind)

NextRoutes ==
  \/ \E kind \in {"GET", "POST", "DELETE", "OPTIONS"} : ReceiveRoutes(kind)
  \/ \E i \in 1..Len(reqs) : PreHandler(i)
  \/ \E i \in 1..Len(reqs), input \in ParamKinds : Handler(i, input)
  \/ \E i \in 1..Len(reqs), service \in ServiceOutcomes, status \in HandlerStatuses :
       HandlerReply(i, service, status)
  \/ \E i \in 1..Len(reqs) : Finish(i)
  \/ \E i \in 1..Len(reqs) : Count(i)

SpecRoutes == InitRoutes /\ [][NextRoutes]_vars

SpecStrict == InitStrict /\ [][NextRoutes]_vars

\* The routes taken as in NextRoutes, with the clock moving.
NextFresh ==
  \/ NextRoutes
  \/ Tick

SpecFresh == InitFresh /\ [][NextFresh]_vars

SpecAuthAttempt == InitAuthAttempt /\ [][Next]_vars

SpecHealth == InitHealth /\ [][Next]_vars

SpecZero == InitZero /\ [][Next]_vars

SpecInvalid == InitInvalid /\ [][Next]_vars

\* What a stage of docs/tasks/05.md has done for a request: whether it
\* skipped it, and for RateLimitMiddleware.handle the result of the
\* increment it awaits, the headers it set, what it threw and whether it
\* added its onError hook.
StageRun(by, route, skipped, key, pc, hits) ==
  [by |-> by, route |-> route, routerPath |-> route,
   skipped |-> skipped, key |-> key, pc |-> pc,
   totalHits |-> hits.totalHits, timeToExpire |-> hits.timeToExpire,
   headers |-> [limit |-> NoHeader, remaining |-> NoHeader,
                reset |-> NoHeader, retryAfter |-> NoHeader],
   threw |-> "", onError |-> FALSE,
   checked |-> FALSE, token |-> "", message |-> "", user |-> Undefined]

NoHits == [totalHits |-> 0, timeToExpire |-> 0]

\* RateLimitMiddleware.handle for a request of ip routed to route, up to
\* `await this.store.increment(key)`: nothing for a skipped request, else
\* the increment.
Handle(route, ip) ==
  /\ Len(reqs) < env.requests
  /\ route \in env.routes
  /\ ip \in env.clients
  /\ IF shouldSkip(config, route)
     THEN /\ reqs' = Append(reqs, StageRun("shouldSkip", route, TRUE, ip, "done", NoHits))
          /\ UNCHANGED <<objs, rateLimitStore>>
     ELSE LET r == increment(ip, rateLimitStore, objs, now)
          IN /\ rateLimitStore' = r.store
             /\ objs' = r.heap
             /\ reqs' = Append(reqs, StageRun("shouldSkip", route, FALSE, ip,
                                              "awaiting", r))
  /\ UNCHANGED <<config, env, now>>

\* handle after the await: the headers, and over the limit Retry-After
\* and TooManyRequestsError, else the onError hook.
HandleResume(n) ==
  /\ reqs[n].pc = "awaiting"
  /\ LET run == reqs[n]
         over == run.totalHits > config.max
         left == IF config.max - run.totalHits > 0
                 THEN config.max - run.totalHits ELSE 0
     IN reqs' = [reqs EXCEPT ![n] =
                   [run EXCEPT !.pc = "done",
                               !.headers = [limit |-> config.max,
                                            remaining |-> left,
                                            reset |-> now + run.timeToExpire,
                                            retryAfter |->
                                              IF over THEN Ceil(run.timeToExpire, 1000)
                                              ELSE NoHeader],
                               !.threw = IF over THEN "TooManyRequestsError" ELSE "",
                               !.onError = ~over]]
  /\ UNCHANGED <<config, env, now, objs, rateLimitStore>>

\* The options registerAuthMiddleware builds its JwtMiddleware with.
JwtMiddlewareOptions ==
  MiddlewareOptions(Some(TRUE),
                    Some({Health, Metrics, AuthLogin, AuthRegister, Docs, DocsWildcard}),
                    Undefined)

\* What the Authorization header of a request carries.
Tokens == {"missing", "valid", "invalid", "expired"}

\* JwtMiddleware.handle up to `await this.verifyToken(token)`: nothing for
\* a route of its own skipRoutes, UnauthorizedError without a token, else
\* the verification is under way.
jwtMiddleware(run, token) ==
  IF shouldSkip(JwtMiddlewareOptions, run.routerPath) THEN run
  ELSE IF token = "missing"
  THEN [run EXCEPT !.checked = TRUE, !.threw = "UnauthorizedError",
                   !.message = "Missing authentication token"]
  ELSE [run EXCEPT !.checked = TRUE, !.token = token, !.pc = "verifying"]

\* JwtMiddleware.handle after the await: request.user from the payload, or
\* UnauthorizedError for a token jwt.verify refuses (TokenExpiredError is
\* a JsonWebTokenError, so the first instanceof test takes both).
jwtMiddlewareResume(run) ==
  IF run.token = "valid"
  THEN [run EXCEPT !.pc = "done", !.user = Some("payload.userId")]
  ELSE [run EXCEPT !.pc = "done", !.threw = "UnauthorizedError",
                   !.message = "Invalid authentication token"]

\* request.routerPath of a request for url: the url itself when a route is
\* registered under that very path, the pattern '/docs/*' when the url
\* lies below '/docs/' and the documentation is registered by pattern.
RouterPaths(url) ==
  {url} \cup (IF startsWith(url, Docs \o <<"/">>) THEN {DocsWildcard} ELSE {})

\* The JWT onRequest hook of registerAuthMiddleware, which is registered
\* only `if (this.config.auth.jwt.enabled)`, meets a request for url that
\* was routed to route: it skips the request (deciding on request.url) or
\* awaits jwtMiddleware (which decides on request.routerPath).
JwtOnRequest(url, route, token) ==
  /\ TruthyFlag(config.enabled)
  /\ Len(reqs) < env.requests
  /\ url \in env.routes
  /\ route \in RouterPaths(url)
  /\ LET skip == jwtShouldSkip(config, url)
         run == [StageRun("jwt", url, skip, "", "done", NoHits)
                   EXCEPT !.routerPath = route]
     IN /\ skip => token = "missing"
        /\ reqs' = Append(reqs, IF skip THEN run ELSE jwtMiddleware(run, token))
  /\ UNCHANGED <<config, env, now, objs, rateLimitStore>>

\* jwt.verify has answered for run n.
JwtResume(n) ==
  /\ reqs[n].pc = "verifying"
  /\ reqs' = [reqs EXCEPT ![n] = jwtMiddlewareResume(@)]
  /\ UNCHANGED <<config, env, now, objs, rateLimitStore>>

NextScope ==
  \/ \E route \in Paths, ip \in Keys : Handle(route, ip)
  \/ \E n \in 1..Len(reqs) : HandleResume(n)
  \/ \E url \in Paths, route \in Paths \cup {DocsWildcard}, token \in Tokens :
       JwtOnRequest(url, route, token)
  \/ \E n \in 1..Len(reqs) : JwtResume(n)

SpecScope == InitScope /\ [][NextScope]_vars

\* The next preHandler hook of request i, run by the limiter and by its
\* sweep-less twin; the request goes on as the limiter decided.
PreHandlerBoth(i) ==
  /\ reqs[i].pc = "preHandler"
  /\ LET stage == Head(reqs[i].pending)
         popped == [reqs[i] EXCEPT !.pending = Tail(@), !.trace = Append(@, stage)]
         out == rateLimitHook(stage, popped, rateLimitStore.swept,
                                    objs.swept, now)
         twin == rateLimitMiddlewareLazy(stage, popped, rateLimitStore.lazy,
                                         objs.lazy, now)
     IN /\ reqs' = [reqs EXCEPT ![i] = afterHook(out.req)]
        /\ rateLimitStore' = [swept |-> out.store, lazy |-> twin.store]
        /\ objs' = [swept |-> out.heap, lazy |-> twin.heap,
                    seen |-> Append(objs.seen,
                               [req |-> i, key |-> reqs[i].ip,
                                entry |-> twin.entry, stale |-> twin.stale])]
  /\ UNCHANGED <<config, env, now>>

\* The 'finish' listeners the twin registered for request i.
RECURSIVE twinListeners(_, _)
twinListeners(seen, i) ==
  IF seen = <<>> THEN <<>>
  ELSE LET s == Head(seen)
       IN IF s.req = i /\ s.entry.admitted
          THEN <<[stage |-> s.entry.stage, key |-> s.key, obj |-> s.entry.obj]>>
                 \o twinListeners(Tail(seen), i)
          ELSE twinListeners(Tail(seen), i)

\* The continuations of the listeners ls, one after the other.
RECURSIVE resumeAll(_, _, _)
resumeAll(ls, store, heap) ==
  IF ls = <<>> THEN [store |-> store, heap |-> heap]
  ELSE LET r == finishListenerResume(Head(ls), store, heap)
       IN resumeAll(Tail(ls), r.store, r.heap)

\* The response of request i has been written out, on both sides: the
\* listeners of both run up to their await; neither store is touched.
FinishBoth(i) ==
  /\ reqs[i].pc = "sent"
  /\ LET waiting == emitFinish(reqs[i].listeners, reqs[i].statusCode)
         twin == emitFinish(twinListeners(objs.seen, i), reqs[i].statusCode)
     IN reqs' = [reqs EXCEPT ![i] =
                   [@ EXCEPT !.pc = IF waiting = <<>> /\ twin = <<>> THEN "done"
                                    ELSE "finished",
                             !.counting = waiting,
                             !.trace = Append(@, "onResponse")]]
  /\ UNCHANGED <<config, env, now, objs, rateLimitStore>>

\* The microtasks that resume the waiting listeners of request i, on both
\* sides (a GET request has at most one on each).
CountBoth(i) ==
  /\ reqs[i].pc = "finished"
  /\ LET out == resumeAll(reqs[i].counting, rateLimitStore.swept, objs.swept)
         twin == resumeAll(emitFinish(twinListeners(objs.seen, i), reqs[i].statusCode),
                           rateLimitStore.lazy, objs.lazy)
     IN /\ rateLimitStore' = [swept |-> out.store, lazy |-> twin.store]
        /\ objs' = [swept |-> out.heap, lazy |-> twin.heap, seen |-> objs.seen]
  /\ reqs' = [reqs EXCEPT ![i] = [@ EXCEPT !.pc = "done", !.counting = <<>>]]
  /\ UNCHANGED <<config, env, now>>

NextLazy ==
  \/ \E ip \in Keys : Receive(ip, "GET")
  \/ \E i \in 1..Len(reqs) : PreHandlerBoth(i)
  \/ \E i \in 1..Len(reqs), input \in ParamKinds : Handler(i, input)
  \/ \E i \in 1..Len(reqs), service \in ServiceOutcomes, status \in HandlerStatuses :
       HandlerReply(i, service, status)
  \/ \E i \in 1..Len(reqs) : FinishBoth(i)
  \/ \E i \in 1..Len(reqs) : CountBoth(i)
  \/ Tick

SpecLazy == InitLazy /\ [][NextLazy]_vars

\* The rate-limit hook of request i throws at keyGenerator(request), its
\* first statement: the async hook rejects, nothing of the store has been
\* touched, and Fastify hands the error to the error handler.  (The throw
\* further down the hook, at toISOString(), is part of rateLimitMiddleware.)
PreHandlerThrows(i, name, message) ==
  /\ reqs[i].pc = "preHandler"
  /\ LET stage == Head(reqs[i].pending)
         popped == [reqs[i] EXCEPT !.pending = Tail(@),
                                   !.trace = Append(Append(@, stage), name)]
         error == [name |-> name, message |-> message]
     IN reqs' = [reqs EXCEPT ![i] = afterHook(errorLoggerMiddleware(error, popped))]
  /\ UNCHANGED <<config, env, now, objs, rateLimitStore>>

NextThrow ==
  \/ \E ip \in Keys : Receive(ip, "GET")
  \/ \E i \in 1..Len(reqs) : PreHandler(i)
  \/ \E i \in 1..Len(reqs), name \in ErrorNames, message \in ErrorMessages :
       PreHandlerThrows(i, name, message)
  \/ \E i \in 1..Len(reqs), input \in ParamKinds : Handler(i, input)
  \/ \E i \in 1..Len(reqs), service \in ServiceOutcomes, status \in HandlerStatuses :
       HandlerReply(i, service, status)
  \/ \E i \in 1..Len(reqs) : Finish(i)
  \/ \E i \in 1..Len(reqs) : Count(i)
  \/ Tick

SpecThrow == InitThrow /\ [][NextThrow]_vars

\* todoService.generatePaginationInfo(page, limit, total)
GeneratePaginationInfo(page, limit, total) ==
  /\ reqs' = <<[op |-> "generatePaginationInfo",
                args |-> [page |-> page, limit |-> limit, total |-> total],
                result |-> generatePaginationInfo(page, limit, total)]>>
  /\ UNCHANGED <<config, env, now, objs, rateLimitStore>>

NextPagination ==
  \E page \in 1..MaxPage, limit \in 1..MaxLimit, total \in 0..MaxTotal :
    GeneratePaginationInfo(page, limit, total)

SpecPagination == InitPagination /\ [][NextPagination]_vars

\* The request with the times of its arrival and of its rate-limit hook
\* (the hook's Date.now(); -1 until the hook has run).
Timed(r, sentAt, hookAt) ==
  [f \in DOMAIN r \cup {"sentAt", "hookAt"} |->
     IF f = "sentAt" THEN sentAt ELSE IF f = "hookAt" THEN hookAt ELSE r[f]]

\* Receive, keeping the arrival time; the client has at most MaxInFlight
\* requests under way at a time.
ReceiveAt(ip, kind) ==
  /\ Len(reqs) < env.requests
  /\ Cardinality({j \in 1..Len(reqs) : reqs[j].pc # "done"}) < MaxInFlight
  /\ ip \in env.clients
  /\ kind \in env.routes
  /\ LET solo == \A j \in 1..Len(reqs) : reqs[j].ip = ip => reqs[j].pc = "done"
         r == runOnRequest(hooks.onRequest, newRequest(ip, kind, solo))
     IN reqs' = Append(reqs, Timed(afterHook(r), now, -1))
  /\ UNCHANGED <<config, env, now, objs, rateLimitStore>>

\* PreHandler, keeping the time the hook read.
PreHandlerAt(i) ==
  /\ reqs[i].pc = "preHandler"
  /\ LET stage == Head(reqs[i].pending)
         popped == [reqs[i] EXCEPT !.pending = Tail(@), !.trace = Append(@, stage)]
         out == rateLimitHook(stage, popped, rateLimitStore, objs, now)
     IN /\ reqs' = [reqs EXCEPT ![i] = [afterHook(out.req) EXCEPT !.hookAt = now]]
        /\ rateLimitStore' = out.store
        /\ objs' = out.heap
  /\ UNCHANGED <<config, env, now>>

\* Date.now() moves on by one clock step; at most MaxInFlightAdvance
\* requests are under way across a clock step.
Advance ==
  /\ now < MaxSteps * StepMs
  /\ Cardinality({j \in 1..Len(reqs) : reqs[j].pc # "done"}) <= MaxInFlightAdvance
  /\ now' = now + StepMs
  /\ UNCHANGED <<config, env, objs, rateLimitStore, reqs>>

NextWindowEnd ==
  \/ ReceiveAt("ip1", "GET")
  \/ \E i \in 1..Len(reqs) : PreHandlerAt(i)
  \/ \E i \in 1..Len(reqs), input \in ParamKinds : Handler(i, input)
  \/ \E i \in 1..Len(reqs), service \in ServiceOutcomes, status \in HandlerStatuses :
       HandlerReply(i, service, status)
  \/ \E i \in 1..Len(reqs) : Finish(i)
  \/ \E i \in 1..Len(reqs) : Count(i)
  \/ Advance

SpecWindowEnd == InitWindowEnd /\ [][NextWindowEnd]_vars

\* Date.now() moves on, for longer than Tick allows.
TickLate ==
  /\ now < MaxTicksLate * TickMs
  /\ now' = now + TickMs
  /\ UNCHANGED <<config, env, objs, rateLimitStore, reqs>>

NextLate ==
  \/ Receive("ip1", "GET")
  \/ \E i \in 1..Len(reqs) : PreHandler(i)
  \/ \E i \in 1..Len(reqs), input \in ParamKinds : Handler(i, input)
  \/ \E i \in 1..Len(reqs), service \in ServiceOutcomes, status \in HandlerStatuses :
       HandlerReply(i, service, status)
  \/ \E i \in 1..Len(reqs) : Finish(i)
  \/ \E i \in 1..Len(reqs) : Count(i)
  \/ TickLate

SpecLate == InitLate /\ [][NextLate]_vars

\* The next preHandler hook of request i is an authentication hook.  It
\* runs authMiddleware; adminAuthMiddleware awaits it, so the hook is
\* suspended there and the lifecycle waits for its continuation.
PreHandlerAuth(i, credential) ==
  /\ reqs[i].pc = "preHandler"
  /\ Head(reqs[i].pending) \in {"authenticate", "requireAdmin"}
  /\ LET stage == Head(reqs[i].pending)
         popped == [reqs[i] EXCEPT !.pending = Tail(@), !.trace = Append(@, stage)]
         out == authMiddleware(credential, popped)
     IN reqs' = [reqs EXCEPT ![i] = IF stage = "authenticate" THEN afterHook(out)
                                   ELSE [out EXCEPT !.pc = "requireAdmin"]]
  /\ UNCHANGED <<config, env, now, objs, rateLimitStore>>

\* The microtask that resumes adminAuthMiddleware for request i.
RequireAdminResume(i) ==
  /\ reqs[i].pc = "requireAdmin"
  /\ reqs' = [reqs EXCEPT ![i] = afterHook(adminAuthMiddleware(reqs[i]))]
  /\ UNCHANGED <<config, env, now, objs, rateLimitStore>>

\* The next preHandler hook of request i is a rate limiter.
PreHandlerLimit(i) ==
  /\ reqs[i].pc = "preHandler"
  /\ IsRateLimitStage(Head(reqs[i].pending))
  /\ PreHandler(i)

NextGuard ==
  \/ \E kind \in {"GET", "OPTIONS", "PROTECTED", "ADMIN"} : Receive("ip1", kind)
  \/ \E i \in 1..Len(reqs) : PreHandlerLimit(i)
  \/ \E i \in 1..Len(reqs), credential \in Credentials : PreHandlerAuth(i, credential)
  \/ \E i \in 1..Len(reqs) : RequireAdminResume(i)
  \/ \E i \in 1..Len(reqs), input \in ParamKinds : Handler(i, input)
  \/ \E i \in 1..Len(reqs), service \in ServiceOutcomes, status \in HandlerStatuses :
       HandlerReply(i, service, status)
  \/ \E i \in 1..Len(reqs) : Finish(i)
  \/ \E i \in 1..Len(reqs) : Count(i)

SpecGuard == InitGuard /\ [][NextGuard]_vars

\* A route handler of todoRoutes calls the controller: the method runs
\* until it has answered or waits for the service.
Call(op, params, body) ==
  /\ Len(reqs) < env.requests
  /\ LET r == TodoController(op, params, body)
     IN reqs' = Append(reqs, [op |-> op, params |-> params, body |-> body,
                              service |-> "", reply |-> r,
                              pc |-> IF r.sent = <<>> THEN "awaiting" ELSE "done"])
  /\ UNCHANGED <<config, env, now, objs, rateLimitStore>>

\* The service answers call n and the method goes on to reply.
CallResume(n, service) ==
  /\ reqs[n].pc = "awaiting"
  /\ reqs' = [reqs EXCEPT ![n] =
                [@ EXCEPT !.service = service, !.pc = "done",
                          !.reply = TodoControllerResume(reqs[n].op, service)]]
  /\ UNCHANGED <<config, env, now, objs, rateLimitStore>>

NextController ==
  \/ \E op \in Operations, params \in ParamKinds, body \in BodyKinds :
       Call(op, params, body)
  \/ \E n \in 1..Len(reqs), service \in ServiceOutcomes : CallResume(n, service)

SpecController == InitController /\ [][NextController]_vars

\* A caller awaits store.increment(key).
Increment(key) ==
  /\ Len(reqs) < env.requests
  /\ key \in env.clients
  /\ LET r == increment(key, rateLimitStore, objs, now)
     IN /\ rateLimitStore' = r.store
        /\ objs' = r.heap
        /\ reqs' = Append(reqs, [op |-> "increment", key |-> key,
                                 totalHits |-> r.totalHits,
                                 timeToExpire |-> r.timeToExpire])
  /\ UNCHANGED <<config, env, now>>

\* A caller awaits store.decrement(key).
Decrement(key) ==
  /\ Len(reqs) < env.requests
  /\ key \in env.clients
  /\ LET r == decrement(key, rateLimitStore, objs)
     IN /\ rateLimitStore' = r.store
        /\ objs' = r.heap
  /\ reqs' = Append(reqs, [op |-> "decrement", key |-> key,
                           totalHits |-> 0, timeToExpire |-> 0])
  /\ UNCHANGED <<config, env, now>>

\* A caller awaits store.resetKey(key).
ResetKey(key) ==
  /\ Len(reqs) < env.requests
  /\ key \in env.clients
  /\ LET r == resetKey(key, rateLimitStore, objs)
     IN /\ rateLimitStore' = r.store
        /\ objs' = r.heap
  /\ reqs' = Append(reqs, [op |-> "resetKey", key |-> key,
                           totalHits |-> 0, timeToExpire |-> 0])
  /\ UNCHANGED <<config, env, now>>

\* Date.now() moves on by one store window.
Elapse ==
  /\ now < MaxTicks * StoreWindowMs
  /\ now' = now + StoreWindowMs
  /\ UNCHANGED <<config, env, objs, rateLimitStore, reqs>>

NextStore ==
  \/ \E key \in Keys : Increment(key)
  \/ \E key \in Keys : Decrement(key)
  \/ \E key \in Keys : ResetKey(key)
  \/ Elapse

SpecStore == InitStore /\ [][NextStore]_vars

\* ------------------------------------------------------------- observers
NoSkip(options) ==
  ~options.skipSuccessfulRequests /\ ~options.skipFailedRequests

Reqs == 1..Len(reqs)

\* Request i has run rate-limit hook s; RL(i, s) is what the hook did.
HasRL(i, s) == \E n \in 1..Len(reqs[i].rl) : reqs[i].rl[n].stage = s
RL(i, s) == reqs[i].rl[CHOOSE n \in 1..Len(reqs[i].rl) : reqs[i].rl[n].stage = s]

Admitted(i, s) == HasRL(i, s) /\ RL(i, s).admitted
Rejected(i, s) == HasRL(i, s) /\ ~RL(i, s).admitted

\* Requests hook s admitted against record o (one record = one window of a key).
AdmittedOn(s, o) == {i \in Reqs : Admitted(i, s) /\ RL(i, s).obj = o}

InTrace(i, x) == \E n \in 1..Len(reqs[i].trace) : reqs[i].trace[n] = x
Pos(i, x) == CHOOSE n \in 1..Len(reqs[i].trace) : reqs[i].trace[n] = x

\* Request i is the step's subject: hook s ran for it in this step.
RanStage(i, s) ==
  /\ i \in Reqs
  /\ ~HasRL(i, s)
  /\ \E n \in 1..Len(reqs'[i].rl) : reqs'[i].rl[n].stage = s

\* The requests so far arrived one after another, each after the previous
\* one's response had finished.
Sequential == \A j \in Reqs : reqs[j].solo

\* ------------------------------------------------------------------ C1
\* C1: for every window (record) of a key, the number of requests the
\* rate-limit hook admitted against it never exceeds the policy's max,
\* whatever the interleaving of hooks and response completions (policies
\* without skip flags, where every admitted request is meant to count).
C1_AdmittedWithinMax ==
  NoSkip(config.rateLimit) =>
    \A o \in 1..Len(objs) :
      Cardinality(AdmittedOn("rateLimit", o)) <= config.rateLimit.max

\* ------------------------------------------------------------------ C2
\* C2: two requests admitted in the same window of a key never carry the
\* same RateLimit-Remaining (they never saw the same pre-increment count).
C2_DistinctRemaining ==
  NoSkip(config.rateLimit) =>
    \A i, j \in Reqs :
      (i # j /\ Admitted(i, "rateLimit") /\ Admitted(j, "rateLimit")
         /\ RL(i, "rateLimit").obj = RL(j, "rateLimit").obj)
        => RL(i, "rateLimit").remaining # RL(j, "rateLimit").remaining

\* ------------------------------------------------------------------ C3
RateLimitStages == {"rateLimit", "strictRateLimit"}

\* Rank of request i among the requests hook s processed in its window.
RankInWindow(i, s) ==
  Cardinality({j \in 1..i : HasRL(j, s) /\ RL(j, s).obj = RL(i, s).obj})

\* C3: under a policy with max = N >= 1 and no skip flags, requests issued
\* one after another in one window are admitted with Remaining N-1, ...,
\* 0, and the next one in that window gets 429: the n-th request the
\* policy's hook sees is admitted iff n <= N.
C3_SequentialQuota ==
  \A i \in Reqs : \A s \in RateLimitStages :
    (NoSkip(PolicyOf(s)) /\ PolicyOf(s).max >= 1
       /\ Sequential /\ HasRL(i, s))
      => LET e == RL(i, s)
             n == RankInWindow(i, s)
         IN IF n <= PolicyOf(s).max
            THEN e.admitted /\ e.remaining = PolicyOf(s).max - n
            ELSE ~e.admitted /\ reqs[i].statusCode = 429

\* ------------------------------------------------------------------ C4
\* C4: when the hook runs for a key whose stored window has fully elapsed
\* (now > windowEnd), it works on a fresh record with count 0 and, for
\* max >= 1, admits the request with Remaining = max - 1, whatever the old
\* record's count was.
C4_Step ==
  \A i \in Reqs : \A s \in RateLimitStages :
    LET k == reqs[i].ip
        old == rateLimitStore[k]
    IN (RanStage(i, s) /\ old # 0 /\ now > objs[old].resetTime
          /\ PolicyOf(s).max >= 1)
         => LET e == reqs'[i].rl[Len(reqs'[i].rl)]
            IN /\ e.obj > Len(objs)
               /\ rateLimitStore'[k] = e.obj
               /\ objs'[e.obj].count = 0
               /\ e.admitted
               /\ e.remaining = PolicyOf(s).max - 1

C4_FreshWindow == [][C4_Step]_vars

C4_Witness ==
  \E i \in Reqs : \E o \in 1..Len(objs) :
    /\ Admitted(i, "rateLimit")
    /\ RL(i, "rateLimit").obj > o
    /\ RL(i, "rateLimit").remaining = config.rateLimit.max - 1
    /\ objs[o].count >= config.rateLimit.max
    /\ config.rateLimit.max >= 1
    /\ objs[o].resetTime < objs[RL(i, "rateLimit").obj].resetTime - config.rateLimit.windowMs

\* ------------------------------------------------------------------ C5
\* C5: once the business handler of an admitted request has started, the
\* count of its window already includes that request (and every other
\* admitted request of the window whose handler has started).
HandlerStartedOn(o) ==
  {j \in AdmittedOn("rateLimit", o) : InTrace(j, "handler")}

C5_CountedBeforeHandler ==
  NoSkip(config.rateLimit) =>
    \A o \in 1..Len(objs) :
      objs[o].count >= Cardinality(HandlerStartedOn(o))

\* ------------------------------------------------------------------ C6
\* C6: a request the rate-limit hook rejected has a terminal 429 and nothing
\* of the admission pipeline runs for it afterwards: no later preHandler
\* (global or route-level) and no business handler; only the response's
\* own completion follows.
C6_RejectionIsTerminal ==
  \A i \in Reqs :
    \A s \in {"rateLimit", "strictRateLimit"} :
      Rejected(i, s) =>
        /\ reqs[i].sent /\ reqs[i].statusCode = 429
        /\ reqs[i].pc \in {"sent", "finished", "done"}
        /\ \A n \in 1..Len(reqs[i].trace) :
             n > Pos(i, s) => reqs[i].trace[n] = "onResponse"

C6_Witness ==
  \E i \in Reqs :
    /\ reqs[i].kind = "POST"
    /\ Rejected(i, "rateLimit")
    /\ reqs[i].pc = "done"
    /\ ~InTrace(i, "strictRateLimit") /\ ~InTrace(i, "handler")

\* ------------------------------------------------------------------ C7
\* C7: for one request the stages run in the order registerMiddleware
\* registered them (logger, CORS, rate limit, auth): a stage registered
\* earlier has run before any stage registered later runs.
C7_RegistrationOrder ==
  \A i \in Reqs :
    \A a, b \in 1..Len(hooks.order) :
      (a < b /\ InTrace(i, hooks.order[a]) /\ InTrace(i, hooks.order[b]))
        => Pos(i, hooks.order[a]) < Pos(i, hooks.order[b])

\* ------------------------------------------------------------------ C8
\* C8: every RateLimit-Remaining value the hook emits, on admitted and on
\* rejected requests, lies in 0..max of the hook's policy.
C8_RemainingInRange ==
  \A i \in Reqs :
    /\ \A n \in 1..Len(reqs[i].rl) :
         /\ reqs[i].rl[n].remaining >= 0
         /\ reqs[i].rl[n].remaining <= PolicyOf(reqs[i].rl[n].stage).max
    /\ reqs[i].rl # <<>> =>
         reqs[i].headers.remaining = reqs[i].rl[Len(reqs[i].rl)].remaining

C8_Witness ==
  \E i, j \in Reqs :
    /\ i # j
    /\ Admitted(i, "rateLimit") /\ Admitted(j, "rateLimit")
    /\ RL(i, "rateLimit").obj = RL(j, "rateLimit").obj
    /\ RL(i, "rateLimit").remaining = 0 /\ RL(j, "rateLimit").remaining = 0
    /\ \E r \in Reqs : Rejected(r, "rateLimit") /\ reqs[r].headers.remaining = 0

\* ------------------------------------------------------------------ C9
\* C9: a rejected request has status 429, a Retry-After header equal to
\* ceil((windowEnd - now) / 1000), and the taxonomy body whose retryAfter
\* equals the header; the value is at least 1 and at most
\* ceil(windowMs / 1000).
C9_State ==
  \A i \in Reqs : \A s \in RateLimitStages :
    Rejected(i, s) =>
      LET e == RL(i, s) IN
      /\ reqs[i].statusCode = 429
      /\ reqs[i].headers.retryAfter = e.retryAfter
      /\ reqs[i].body = [error |-> "Too Many Requests",
                         message |-> PolicyOf(s).message,
                         retryAfter |-> reqs[i].headers.retryAfter]
      /\ e.retryAfter >= 1
      /\ (e.retryAfter - 1) * 1000 < PolicyOf(s).windowMs

C9_Step ==
  \A i \in Reqs : \A s \in RateLimitStages :
    RanStage(i, s) =>
      LET e == reqs'[i].rl[Len(reqs'[i].rl)]
          left == objs'[e.obj].resetTime - now
      IN ~e.admitted =>
           /\ (e.retryAfter - 1) * 1000 < left
           /\ left <= e.retryAfter * 1000

C9_RetryAfter == []C9_State /\ [][C9_Step]_vars

\* ------------------------------------------------------------------ C10
\* A final status that the policy's skip flags exempt.
Exempt(options, statusCode) ==
  \/ options.skipFailedRequests /\ statusCode >= 400
  \/ options.skipSuccessfulRequests /\ statusCode >= 200 /\ statusCode < 300

\* Every listener of request i was added by stage s.
OnlyStage(i, s) ==
  \A n \in 1..Len(reqs[i].listeners) : reqs[i].listeners[n].stage = s

\* C10: a request whose final status is exempted by a skip flag of the
\* policy leaves the key's count under that policy as it found it (the
\* hook adds nothing when it admits, the completion adds nothing either:
\* the policy's listener does not go on to count, and when no other stage
\* listens no step taken for the request after its response touches the
\* store); so with skipFailedRequests and max >= 1, after any number of
\* sequential failing requests the next request is admitted by the
\* policy's stage.
C10_Step ==
  \A i \in Reqs :
    /\ (RanStage(i, "rateLimit") /\ rateLimitStore'[reqs[i].ip] <= Len(objs))
         => objs' = objs
    /\ (reqs[i].pc \in {"sent", "finished"} /\ reqs'[i] # reqs[i]
          /\ OnlyStage(i, "rateLimit")
          /\ Exempt(config.rateLimit, reqs[i].statusCode))
         => (objs' = objs /\ rateLimitStore' = rateLimitStore
               /\ reqs'[i].pc = "done")

C10_State ==
  \A i \in Reqs :
    /\ (reqs[i].sent /\ Exempt(config.rateLimit, reqs[i].statusCode))
         => \A n \in 1..Len(reqs[i].counting) :
              reqs[i].counting[n].stage # "rateLimit"
    /\ (config.rateLimit.skipFailedRequests /\ config.rateLimit.max >= 1
          /\ Sequential /\ HasRL(i, "rateLimit")
          /\ \A j \in 1..(i - 1) :
               reqs[j].ip = reqs[i].ip => reqs[j].statusCode >= 400)
         => Admitted(i, "rateLimit")

C10_SkipFlags == []C10_State /\ [][C10_Step]_vars

\* ------------------------------------------------------------------ C11
\* Rank of request i among the requests the strict hook processed in the
\* window (record) it consulted.
StrictRank(i) ==
  Cardinality({j \in 1..i : HasRL(j, "strictRateLimit")
                 /\ RL(j, "strictRateLimit").obj = RL(i, "strictRateLimit").obj})

\* C11: the strict policy of the write routes keeps its own account: per
\* window it admits at most its max (10) requests, sequential write
\* requests see Remaining 9, 8, ... whatever other traffic the client sent
\* and whatever the global hook counted, and the window it reports ends one
\* strict windowMs (5 minutes) after a start that lies between server
\* start and now.
C11_StrictIndependent ==
  LET strict == strictRateLimitMiddleware IN
  /\ \A o \in 1..Len(objs) :
       Cardinality(AdmittedOn("strictRateLimit", o)) <= strict.max
  /\ \A i \in Reqs :
       HasRL(i, "strictRateLimit") =>
         LET e == RL(i, "strictRateLimit") IN
         /\ e.reset >= strict.windowMs
         /\ e.reset <= now + strict.windowMs
         /\ (Sequential /\ StrictRank(i) <= strict.max)
              => (e.admitted /\ e.remaining = strict.max - StrictRank(i))

\* ------------------------------------------------------------------ C12
\* Completed requests of window o whose final status is a failure.
FailedOn(o) ==
  {i \in AdmittedOn("rateLimit", o) :
     reqs[i].pc = "done" /\ reqs[i].statusCode >= 400}

\* C12: under the authentication-attempt policy the count of a window is
\* the number of its completed requests that failed (status >= 400); a
\* request that completes with any other status adds nothing.
C12_OnlyFailuresCount ==
  config.rateLimit = authRateLimitMiddleware =>
    \A o \in 1..Len(objs) : objs[o].count = Cardinality(FailedOn(o))

\* ------------------------------------------------------------------ C13
\* The matcher as the specification states it.
applies(options, route) ==
  IF options.onlyRoutes # Undefined /\ options.onlyRoutes[1] # {}
  THEN route \in options.onlyRoutes[1]
  ELSE IF options.skipRoutes # Undefined /\ route \in options.skipRoutes[1]
  THEN FALSE
  ELSE TRUE

\* C13: an enabled stage handles a request exactly when the matcher says
\* so: with a non-empty onlyRoutes, iff the route is a member; otherwise
\* unless skipRoutes contains the route; with no scope configuration,
\* always.
C13_RouteMatcher ==
  \A i \in Reqs :
    (reqs[i].by = "shouldSkip" /\ config.enabled = Some(TRUE))
      => (~reqs[i].skipped <=> applies(config, reqs[i].route))

\* ------------------------------------------------------------------ C14
\* The route template a request kind is routed to.
RouteOf(kind) == IF kind = "HEALTH" THEN Health ELSE Todos

\* C14: when the rate-limit stage is scoped to routes that do not include
\* a request's route (onlyRoutes = ['/api/v1/todos'], request to /health),
\* the stage does nothing for the request: no run of the limiter, no
\* rate-limit header, no completion listener, and as long as only such
\* requests have arrived the store holds no record.
C14_HealthBypasses ==
  /\ \A i \in Reqs :
       RouteOf(reqs[i].kind) \notin config.rateLimit.onlyRoutes =>
         /\ reqs[i].rl = <<>>
         /\ reqs[i].listeners = <<>>
         /\ reqs[i].headers.limit = NoHeader
         /\ reqs[i].headers.remaining = NoHeader
         /\ reqs[i].headers.reset = NoHeader
  /\ (\A i \in Reqs : RouteOf(reqs[i].kind) \notin config.rateLimit.onlyRoutes)
       => (objs = <<>> /\ \A k \in Keys : rateLimitStore[k] = 0)

\* ------------------------------------------------------------------ C15
\* The subtree a scope entry denotes: an entry ending in '/*' covers the
\* path before the suffix and every path below it, any other entry covers
\* itself only.
InSubtree(entry, url) ==
  IF endsWith(entry, <<"/", "*">>)
  THEN LET root == SubSeq(entry, 1, Len(entry) - 2)
       IN url = root \/ startsWith(url, root \o <<"/">>)
  ELSE url = entry

\* C15: the JWT hook skips a request exactly when one of its skipRoutes
\* entries covers the request's path: '/docs/*' covers '/docs' and what
\* lies below it and nothing outside that subtree, an entry without the
\* suffix covers the exact path only.
C15_WildcardPrefix ==
  \A i \in Reqs :
    reqs[i].by = "jwt" =>
      (reqs[i].skipped <=>
         (config.skipRoutes # Undefined
            /\ \E entry \in config.skipRoutes[1] : InSubtree(entry, reqs[i].route)))

\* ------------------------------------------------------------------ C16
\* C16: the store access of the hook is an increment: when the key has no
\* live record the hook leaves one with count 1 and windowEnd = now +
\* windowMs, and when it has one the hook adds exactly 1 to its count (for
\* every request the hook lets through; windowEnd stays).
C16_Step ==
  \A i \in Reqs :
    RanStage(i, "rateLimit") =>
      LET k == reqs[i].ip
          old == rateLimitStore[k]
          live == old # 0 /\ ~(now > objs[old].resetTime)
          e == reqs'[i].rl[Len(reqs'[i].rl)]
          rec == objs'[rateLimitStore'[k]]
      IN e.admitted =>
           IF live
           THEN /\ rateLimitStore'[k] = old
                /\ rec.count = objs[old].count + 1
                /\ rec.resetTime = objs[old].resetTime
           ELSE /\ rec.count = 1
                /\ rec.resetTime = now + config.rateLimit.windowMs

C16_Increment == [][C16_Step]_vars

\* ------------------------------------------------------------------ C17
\* The step is a decrement(key) call.
IsDecrement(key) ==
  /\ Len(reqs') = Len(reqs) + 1
  /\ reqs'[Len(reqs')].op = "decrement"
  /\ reqs'[Len(reqs')].key = key

\* C17: no record of the counter store ever has a negative count, whatever
\* increments, decrements and resets were called, and a decrement for a key
\* that has no record or whose record has expired (now > windowEnd) changes
\* nothing in the store.
C17_State == \A o \in 1..Len(objs) : objs[o].count >= 0

C17_Step ==
  \A key \in Keys :
    (IsDecrement(key)
       /\ (rateLimitStore[key] = 0 \/ now > objs[rateLimitStore[key]].resetTime))
      => (objs' = objs /\ rateLimitStore' = rateLimitStore)

C17_NoUnderflow == []C17_State /\ [][C17_Step]_vars

\* ------------------------------------------------------------------ C18
\* C18: the record a hook consults belongs to a window of the hook's own
\* length (it ends windowMs after a start between server start and now, and
\* it has not ended yet), and while a key's record is live no step gives
\* the key another windowEnd or a smaller count.
C18_Step ==
  /\ \A i \in Reqs : \A s \in {"rateLimit", "strictRateLimit"} :
       RanStage(i, s) =>
         LET e == reqs'[i].rl[Len(reqs'[i].rl)]
         IN /\ e.reset > now
            /\ e.reset <= now + PolicyOf(s).windowMs
            /\ e.reset >= PolicyOf(s).windowMs
  /\ \A k \in Keys :
       LET old == rateLimitStore[k]
       IN (old # 0 /\ objs[old].resetTime > now) =>
            /\ rateLimitStore'[k] # 0
            /\ objs'[rateLimitStore'[k]].resetTime = objs[old].resetTime
            /\ objs'[rateLimitStore'[k]].count >= objs[old].count

C18_WindowFixed == [][C18_Step]_vars

\* ------------------------------------------------------------------ C19
\* C19: under a policy with max = 0 every request the hook processes is
\* rejected with 429 (and never reaches the handler), for every key, in
\* every window, with any skip setting.
C19_ZeroMaxRejectsAll ==
  config.rateLimit.max = 0 =>
    \A i \in Reqs :
      HasRL(i, "rateLimit") =>
        /\ Rejected(i, "rateLimit")
        /\ reqs[i].statusCode = 429
        /\ reqs[i].headers.remaining = 0
        /\ ~InTrace(i, "handler")

C19_Witness ==
  /\ config.rateLimit.max = 0
  /\ \E i, j \in Reqs :
       /\ reqs[i].ip = reqs[j].ip
       /\ Rejected(i, "rateLimit") /\ Rejected(j, "rateLimit")
       /\ RL(i, "rateLimit").obj # RL(j, "rateLimit").obj
       /\ reqs[i].pc = "done" /\ reqs[j].statusCode = 429

\* ------------------------------------------------------------------ C20
\* C20: the limiter without the per-request sweep decides every request as
\* the limiter with it: same admission or rejection, same Remaining, same
\* Reset and same Retry-After, for every interleaving and timing.
C20_SweepIrrelevant ==
  \A n \in 1..Len(objs.seen) :
    LET s == objs.seen[n]
        e == s.entry
        r == RL(s.req, e.stage)
    IN /\ e.admitted = r.admitted
       /\ e.remaining = r.remaining
       /\ e.reset = r.reset
       /\ e.retryAfter = r.retryAfter

\* A client comes back when its window, used up, has ended: the twin finds
\* the expired record only through the check of its get-or-create, and
\* admits the request in a fresh window as the limiter does.
C20_Witness ==
  \E n \in 1..Len(objs.seen) :
    /\ objs.seen[n].stale
    /\ objs.seen[n].entry.admitted
    /\ objs.seen[n].entry.remaining = config.rateLimit.max - 1
    /\ Admitted(objs.seen[n].req, "rateLimit")
    /\ \E m \in 1..(n - 1) :
         /\ objs.seen[m].key = objs.seen[n].key
         /\ objs.seen[m].entry.obj # objs.seen[n].entry.obj
         /\ objs.lazy[objs.seen[m].entry.obj].count >= config.rateLimit.max

\* ------------------------------------------------------------------ C21
\* A policy the specification accepts: max is not negative and the window
\* has a positive length.
ValidPolicy(options) == options.max >= 0 /\ options.windowMs > 0

\* C21: a stage built from an invalid policy never processes a request (the
\* configuration is refused when the stage is created or registered), and
\* no request ends with a server error because of the configuration.
C21_InvalidConfigRefused ==
  \A i \in Reqs :
    /\ HasRL(i, "rateLimit") => ValidPolicy(config.rateLimit)
    /\ reqs[i].statusCode < 500

\* ------------------------------------------------------------------ C22
\* The rate-limit hook threw while processing request i: the error handler
\* answered it.
Threw(i) == InTrace(i, "errorHandler")

\* What the claim asks besides the status for a request whose hook threw:
\* it is answered, not with 429, and no handler runs.
ThrowIsTerminal(i) ==
  /\ reqs[i].sent /\ reqs[i].pc \in {"sent", "done"}
  /\ reqs[i].statusCode # 429
  /\ ~InTrace(i, "handler")

\* C22: a request whose rate-limit hook threw ends with a 5xx response, is
\* not forwarded to the handler and not answered with 429.
C22_ThrowGivesServerError ==
  \A i \in Reqs : Threw(i) => (ThrowIsTerminal(i) /\ reqs[i].statusCode >= 500)

\* ------------------------------------------------------------------ C23
\* C23: generatePaginationInfo returns page, limit and total as given;
\* totalPages is the least number of pages of `limit` items that hold
\* `total` items (ceil(total / limit)); hasNext is page < totalPages and
\* hasPrev is page > 1.  So hasNext is false on the last page, and on the
\* only page both flags are false.
C23_Pagination ==
  \A n \in 1..Len(reqs) :
    LET a == reqs[n].args
        r == reqs[n].result
    IN /\ r.page = a.page /\ r.limit = a.limit /\ r.total = a.total
       /\ r.totalPages >= 0
       /\ r.totalPages * a.limit >= a.total
       /\ (r.totalPages - 1) * a.limit < a.total \/ (a.total = 0 /\ r.totalPages = 0)
       /\ r.hasNext = (a.page < r.totalPages)
       /\ r.hasPrev = (a.page > 1)
       /\ a.page = r.totalPages => ~r.hasNext
       /\ (r.totalPages = 1 /\ a.page = 1) => (~r.hasNext /\ ~r.hasPrev)

\* The last page of several, reached with a remainder: 25 items would be
\* three pages of 10; within the bounds, 9 items are three pages of 4.
C23_Witness ==
  /\ Len(reqs) = 1
  /\ reqs[1].args = [page |-> 3, limit |-> 4, total |-> 9]
  /\ reqs[1].result.totalPages = 3
  /\ ~reqs[1].result.hasNext /\ reqs[1].result.hasPrev

\* ------------------------------------------------------------------ C24
\* What the operation reads of the request, and its success status.
ReadsParams(op) == op \in {"getAllTodos", "getTodoById", "updateTodo", "deleteTodo"}
ReadsBody(op) == op \in {"createTodo", "updateTodo"}
ReportsAbsent(op) == op \in {"getTodoById", "updateTodo", "deleteTodo"}
SuccessStatus(op) ==
  CASE op = "createTodo" -> 201
    [] op = "deleteTodo" -> 204
    [] OTHER -> 200

\* The request of call c fails validation: bad params or query, a body the
\* schema refuses (for createTodo any body without the required fields), or
\* an update that names no field.
FailsValidation(c) ==
  \/ ReadsParams(c.op) /\ c.params = "invalid"
  \/ ReadsBody(c.op) /\ c.body = "invalid"
  \/ c.op = "createTodo" /\ c.body # "valid"
  \/ c.op = "updateTodo" /\ c.body \in {"empty", "unknownOnly"}

\* C24: every controller call sends exactly one response and rethrows
\* nothing; the status is 400 when validation fails (then the service is
\* not called), else 500 when the service throws, else 404 when the service
\* reports the todo absent, else the operation's success status.  A call
\* that waits for the service has passed validation and sent nothing yet.
C24_ControllerStatus ==
  \A n \in 1..Len(reqs) :
    LET c == reqs[n]
        r == c.reply
    IN /\ ~r.rethrown
       /\ FailsValidation(c) <=> r.serviceCalls = 0
       /\ c.pc = "awaiting" => (r.sent = <<>> /\ ~FailsValidation(c))
       /\ c.pc = "done" =>
            /\ Len(r.sent) = 1
            /\ r.sent[1] =
                 (IF FailsValidation(c) THEN 400
                  ELSE IF c.service = "throws" THEN 500
                  ELSE IF c.service = "absent" /\ ReportsAbsent(c.op) THEN 404
                  ELSE SuccessStatus(c.op))

\* A lookup waits for the service; meanwhile an update with a valid id and
\* an empty body is answered 400 without the service being called; then
\* the service reports the todo absent and the lookup answers 404.
C24_Witness ==
  /\ Len(reqs) = 2
  /\ reqs[1].op = "getTodoById" /\ reqs[1].pc = "done"
  /\ reqs[1].service = "absent" /\ reqs[1].reply.sent = <<404>>
  /\ reqs[2].op = "updateTodo" /\ reqs[2].params = "valid"
  /\ reqs[2].body = "empty" /\ reqs[2].pc = "done"
  /\ reqs[2].reply.sent = <<400>>
  /\ reqs[2].reply.serviceCalls = 0

\* ------------------------------------------------------------------ C25
\* C25: a key's record is live for every hook that runs at now <= windowEnd
\* (the request is then accounted on that record and reports its
\* windowEnd, also when now = windowEnd), a new record is made only when
\* now > windowEnd, and no request is accounted on two records.
C25_Step ==
  \A i \in Reqs :
    RanStage(i, "rateLimit") =>
      LET old == rateLimitStore[reqs[i].ip]
          e == reqs'[i].rl[Len(reqs'[i].rl)]
      IN (old # 0 /\ now <= objs[old].resetTime) =>
           /\ e.obj = old
           /\ e.reset = objs[old].resetTime
           /\ Len(objs') = Len(objs)

C25_State ==
  \A i \in Reqs :
    \A a, b \in 1..Len(reqs[i].listeners) :
      reqs[i].listeners[a].stage = reqs[i].listeners[b].stage => a = b

C25_LiveAtWindowEnd == []C25_State /\ [][C25_Step]_vars

\* ------------------------------------------------------------------ C26
\* The step completes request i's response: the finish listener of one of
\* its admitted runs goes on to count.
Finishes(i) ==
  /\ i \in Reqs /\ reqs[i].pc = "finished"
  /\ reqs'[i].counting = Tail(reqs[i].counting)

\* C26: when a response finishes after its key's window has rolled over
\* (the key's record is no longer the one the request was admitted on, but
\* one created for a later window), the completion leaves that later
\* record in place with its count and windowEnd.
C26_Step ==
  \A i \in Reqs :
    Finishes(i) =>
        LET l == Head(reqs[i].counting)
            cur == rateLimitStore[l.key]
        IN (cur # 0 /\ cur # l.obj /\ objs[cur].resetTime > objs[l.obj].resetTime) =>
             /\ rateLimitStore'[l.key] = cur
             /\ objs'[cur] = objs[cur]

C26_LateFinishNoOp == [][C26_Step]_vars

\* ------------------------------------------------------------------ C27
\* Request j was answered 429; request i = j + 1 is the next one the client
\* sent, it left at least Retry-After seconds after that answer, and the
\* client has sent nothing since.
RetriedAfterWait(j, i) ==
  /\ j \in Reqs /\ i = j + 1 /\ i = Len(reqs)
  /\ reqs[i].ip = reqs[j].ip
  /\ Rejected(j, "rateLimit")
  /\ reqs[i].sentAt >= reqs[j].hookAt + 1000 * RL(j, "rateLimit").retryAfter

\* Every request the client sent before request j had been through the
\* rate-limit hook by the time j was answered.
NoneWaiting(j) ==
  \A h \in 1..(j - 1) :
    reqs[h].ip = reqs[j].ip =>
      (reqs[h].hookAt # -1 /\ reqs[h].hookAt <= reqs[j].hookAt)

\* The hook's verdict on request i in this step.
Verdict(i) == reqs'[i].rl[Len(reqs'[i].rl)]

\* C27: after a 429 with Retry-After = s, a client that sends nothing for
\* s seconds and then one request has that request admitted (max >= 1).
\* The case looked at is the one where none of the client's earlier
\* requests was still waiting for the rate-limit hook when the 429 was
\* sent: a request that waits takes the slot of the next window before
\* the retry under any limiter, so a behaviour that violates the formula
\* violates the claim through the limiter's own accounting.
C27_Step ==
  \A j \in Reqs : \A i \in Reqs :
    (config.rateLimit.max >= 1 /\ RanStage(i, "rateLimit")
       /\ RetriedAfterWait(j, i) /\ NoneWaiting(j)) =>
      Verdict(i).admitted

C27_RetryAdmitted == [][C27_Step]_vars

\* ------------------------------------------------------------------ C28
\* C28: a hook that rejects leaves the key's record and its windowEnd as
\* they are; a request processed while a window reported to an earlier
\* request of the key is still on (now < that windowEnd) reports the same
\* windowEnd; and a 429 sent in such a window carries a Retry-After no
\* larger than the earlier 429s of that window.
C28_Step ==
  \A i \in Reqs :
    RanStage(i, "rateLimit") =>
      LET k == reqs[i].ip
          e == reqs'[i].rl[Len(reqs'[i].rl)]
      IN /\ ~e.admitted =>
              /\ objs'[e.obj].resetTime = e.reset
              /\ \A o \in 1..Len(objs) : objs'[o] = objs[o]
         /\ \A j \in Reqs \ {i} :
              (reqs[j].ip = k /\ HasRL(j, "rateLimit")
                 /\ RL(j, "rateLimit").reset > now) =>
                /\ e.reset = RL(j, "rateLimit").reset
                /\ (~e.admitted /\ Rejected(j, "rateLimit")) =>
                     e.retryAfter <= RL(j, "rateLimit").retryAfter

C28_SameWindowEnd == [][C28_Step]_vars

\* ------------------------------------------------------------------ C29
\* Position n of request i's trace is a stage or handler writing the
\* terminal response.
Wrote(i, n) ==
  LET x == reqs[i].trace[n]
  IN \/ x = "cors" /\ reqs[i].kind = "OPTIONS"
     \/ IsRateLimitStage(x) /\ Rejected(i, x)
     \/ x \in {"reply:401", "reply:403", "reply:500", "send", "errorHandler"}

Writes(i) == {n \in 1..Len(reqs[i].trace) : Wrote(i, n)}

\* C29: every request has at most one terminal response written (by the
\* CORS hook for OPTIONS, a rate limiter's 429, an authentication hook's
\* 401/403/500, or the handler); after it nothing of the pipeline runs for
\* the request; and a request that authMiddleware answered gets no 403.
C29_SingleResponse ==
  \A i \in Reqs :
    /\ Cardinality(Writes(i)) <= 1
    /\ reqs[i].sent <=> Writes(i) # {}
    /\ \A n \in Writes(i) :
         \A m \in 1..Len(reqs[i].trace) :
           m > n => reqs[i].trace[m] = "onResponse"
    /\ InTrace(i, "reply:403") =>
         /\ ~InTrace(i, "reply:401") /\ ~InTrace(i, "reply:500")
         /\ reqs[i].statusCode = 403

\* An admin request without credentials answered 401 by authMiddleware and
\* nothing else, beside an admin request with the demo token answered 403.
C29_Witness ==
  /\ Len(reqs) = 2
  /\ reqs[1].kind = "ADMIN" /\ reqs[1].pc = "done"
  /\ reqs[1].statusCode = 401 /\ InTrace(1, "reply:401")
  /\ Cardinality(Writes(1)) = 1 /\ ~InTrace(1, "handler")
  /\ reqs[2].kind = "ADMIN" /\ reqs[2].pc = "done"
  /\ reqs[2].statusCode = 403 /\ Cardinality(Writes(2)) = 1

\* ------------------------------------------------------------------ C30
\* Request i is an OPTIONS request that this step receives or moves on.
PreflightStep(i) ==
  /\ i \in 1..Len(reqs') /\ reqs'[i].kind = "OPTIONS"
  /\ (i > Len(reqs) \/ reqs'[i] # reqs[i])

\* C30: an OPTIONS request is answered 204 by the CORS hook in onRequest:
\* no rate limiter runs for it, it registers no completion listener, it
\* gets no rate-limit header and no 429, the handler does not run, and no
\* step of it creates or changes a counter record, whatever the client's
\* quota.
C30_State ==
  \A i \in Reqs :
    reqs[i].kind = "OPTIONS" =>
      /\ reqs[i].sent /\ reqs[i].statusCode = 204
      /\ reqs[i].pc \in {"sent", "done"}
      /\ reqs[i].rl = <<>> /\ reqs[i].listeners = <<>>
      /\ reqs[i].headers.limit = NoHeader
      /\ reqs[i].headers.retryAfter = NoHeader
      /\ ~InTrace(i, "rateLimit") /\ ~InTrace(i, "strictRateLimit")
      /\ ~InTrace(i, "handler")

C30_Step ==
  (\E i \in 1..Len(reqs') : PreflightStep(i)) =>
    (objs' = objs /\ rateLimitStore' = rateLimitStore)

C30_PreflightBypasses == []C30_State /\ [][C30_Step]_vars

\* The client's quota of 1 is used up by a GET; its preflight that follows
\* is answered 204 and the record is as the GET left it.
C30_Witness ==
  /\ config.rateLimit.max = 1
  /\ Len(reqs) = 2
  /\ reqs[1].kind = "GET" /\ reqs[1].pc = "done" /\ Admitted(1, "rateLimit")
  /\ rateLimitStore["ip1"] # 0
  /\ objs[rateLimitStore["ip1"]].count = 1
  /\ reqs[2].kind = "OPTIONS" /\ reqs[2].pc = "done"
  /\ reqs[2].statusCode = 204 /\ reqs[2].rl = <<>>
  /\ reqs[1].trace[Len(reqs[1].trace)] = "onResponse"
  /\ Len(objs) = 1

====
